---- MODULE Spec2Model ----
(***************************************************************************)
(* Multi-resource scheduler of cyrusho777/dissertation: the node-stats     *)
(* fetch, the admission predicates, the scoring policies, the preemption   *)
(* algorithm and the node-stats cache of its three front ends              *)
(*   plugin      src/custom-scheduler/pkg/multiresource, src/unnamed/      *)
(*               part_002 and part_003                                     *)
(*   extender    src/k3s-ansible/deployments/sched_extender                *)
(*   preemptive  src/unnamed/part_009                                      *)
(*                                                                         *)
(* Numbers.  The source computes in float64; the model computes in exact   *)
(* integers of fixed units, chosen so that every constant of the source    *)
(* and every product the source forms is an integer:                       *)
(*   CPU      millicores            (6.0 cores = 6000)                     *)
(*   memory   tenths of a GiB       (8 GiB = 80)                           *)
(*   disk/net MiB/s in plugin and extender, the source's plain numbers     *)
(*            (100.0, 1000.0) in the preemptive scheduler                  *)
(*   ratios   permille              (0.2 = 200)                            *)
(*   alpha    percent               (0.8 = 80)                             *)
(***************************************************************************)
EXTENDS Integers, Sequences, FiniteSets, TLC

VARIABLES
    impl,       \* the front end whose code ran last
    resp,       \* metrics source: the outcome of each query of the last fetch
    stats,      \* the NodeStats the last fetch returned
    fetched,    \* whether a fetch has returned
    alpha,      \* the configured utilisation parameter, in percent
    podReq,     \* the PodRequest of the pod under decision
    op,         \* the entry point that ran last: "none", "Filter", "Score"
    admitted,   \* the verdict of the admission predicate
    score,      \* the score the scoring policy returned
    cluster,    \* API server: the pods, a sequence of records
    pc,         \* the position of the preemptive scheduler's loop
    listFailed, \* whether the pod list call of the attempt returned an error
    sorted,     \* the candidates of the attempt, in the order sort.Slice left
    requested,  \* the pods evictPod was called for, in call order
    refused,    \* the pod whose eviction call returned an error, or 0
    result,     \* what attemptPreemptionMulti returned: "none", "true", "false"
    mu,         \* the sync.RWMutex of the cache: its writer and its readers
    nodeStats,  \* the cache: the map from node names to NodeStats
    updater,    \* the goroutine of startNodeStatsUpdater
    handler,    \* the goroutines that serve a Filter and a Score call
    stored,     \* per node, the values some goroutine has stored in the map
    podSpec,    \* the pod whose requirements are extracted
    extracted,  \* the PodRequest the extraction returned
    scores,     \* the NodeScoreList of one pod, before NormalizeScore
    normalized, \* the NodeScoreList after NormalizeScore
    nodeItems,  \* API server: the nodes, in the order the list call returns
    foundNode,  \* what findNodeForPod returned: the index of a node, 0 for ""
    step,       \* the position of the scheduling cycle around the decision
    earlier,    \* the pairs <<g, h>> of goroutines that hold stats of one
                \* node not yet stored, g's fetched before h's
    stale,      \* the goroutines holding stats fetched before the stats
                \* that the cache entry of their node holds
    request,    \* the HTTP request the extender's server is serving
    serving,    \* the locals of the handler goroutine of that request
    response,   \* what the server has sent back for the request
    query,      \* the metrics query in flight and the fetch it belongs to
    watch,      \* the locals of the goroutine of watchForUnscheduledPods
    evictions,  \* the eviction calls made so far, each with its caller
    flags       \* the PodRequest main builds from the command-line flags

varsStats == <<impl, resp, stats, fetched>>

varsDecide == <<alpha, podReq, op, admitted, score>>

varsPreempt ==
    <<cluster, pc, listFailed, sorted, requested, refused, result>>

varsCache == <<mu, nodeStats, updater, handler, stored>>

varsCycle ==
    <<podSpec, extracted, scores, normalized, nodeItems, foundNode, step>>

varsGhost == <<earlier, stale>>

varsWatch == <<watch, evictions, flags>>

varsServe == <<request, serving, response, query, varsWatch>>

vars ==
    <<varsStats, varsDecide, varsPreempt, varsCache, varsCycle, varsGhost,
      varsServe>>

\* PodRequest{}: Go's zero value.
ZeroRequest ==
    [CPU |-> 0, Mem |-> 0, DiskRead |-> 0, DiskWrite |-> 0,
     NetUp |-> 0, NetDown |-> 0, Priority |-> 0]

\* No pod is under decision.
IdleDecide ==
    /\ podReq = ZeroRequest
    /\ op = "none"
    /\ admitted = FALSE
    /\ score = 0

\* A pod without containers and annotations.
NoPod ==
    [image |-> "none", cpu |-> 0, mem |-> 0,
     annotations |-> [k \in {} |-> ""]]

\* No scheduling cycle is under way.
IdleCycle ==
    /\ podSpec = NoPod
    /\ extracted = ZeroRequest
    /\ scores = <<>>
    /\ normalized = <<>>
    /\ nodeItems = <<>>
    /\ foundNode = 0
    /\ step = "off"

\* No goroutine holds stats it has fetched and not stored.
IdleGhost ==
    /\ earlier = {}
    /\ stale = {}

\* No request has come in.
NoRequest ==
    [path |-> "none", method |-> "none", body |-> "none", nodes |-> <<>>]

\* The handler goroutine before it runs.
NotServing ==
    [pc |-> "none", i |-> 0, filteredNodes |-> <<>>, failedNodes |-> <<>>,
     priorityList |-> <<>>, seen |-> <<>>]

\* Nothing has been sent back.
NoResponse ==
    [status |-> 0, closed |-> FALSE, body |-> "none", nodes |-> <<>>,
     failedNodes |-> <<>>, priorityList |-> <<>>]

\* No metrics query is in flight.
NoQuery == [caller |-> "none", phase |-> "idle", n |-> 0, waited |-> 0]

\* The watch goroutine has not started.
NoWatch ==
    [pc |-> "off", items |-> <<>>, pod |-> 0, evictedOn |-> FALSE,
     fresh |-> FALSE, lastCheck |-> "none", failed |-> {}]

\* The extender's server, the metrics client and the watch loop do not run.
IdleServe ==
    /\ request = NoRequest
    /\ serving = NotServing
    /\ response = NoResponse
    /\ query = NoQuery
    /\ watch = NoWatch
    /\ evictions = {}
    /\ flags = ZeroRequest

\* No attempt at preemption has been made.
NoAttempt ==
    /\ listFailed = FALSE
    /\ sorted = <<>>
    /\ requested = <<>>
    /\ refused = 0
    /\ result = "none"

\* The preemptive scheduler does not run.
IdlePreempt ==
    /\ cluster = <<>>
    /\ pc = "off"
    /\ NoAttempt

Impls == {"plugin", "extender", "preemptive"}

\* The six resource dimensions, in the order every predicate visits them.
Dims == <<"cpu", "mem", "diskRead", "diskWrite", "netUp", "netDown">>

DimSet == {Dims[i] : i \in 1..Len(Dims)}

\* NodeStats{}: Go's zero value.
ZeroStats ==
    [CPUTotal |-> 0, CPUFree |-> 0, MemTotal |-> 0, MemFree |-> 0,
     DiskReadTotal |-> 0, DiskReadFree |-> 0,
     DiskWriteTotal |-> 0, DiskWriteFree |-> 0,
     NetUpTotal |-> 0, NetUpFree |-> 0,
     NetDownTotal |-> 0, NetDownFree |-> 0]

\* The free value of a dimension (the `free` column of the resources table).
Free(s, d) ==
    CASE d = "cpu" -> s.CPUFree
      [] d = "mem" -> s.MemFree
      [] d = "diskRead" -> s.DiskReadFree
      [] d = "diskWrite" -> s.DiskWriteFree
      [] d = "netUp" -> s.NetUpFree
      [] d = "netDown" -> s.NetDownFree

\* The total value of a dimension (the `total` column of the resources table).
Total(s, d) ==
    CASE d = "cpu" -> s.CPUTotal
      [] d = "mem" -> s.MemTotal
      [] d = "diskRead" -> s.DiskReadTotal
      [] d = "diskWrite" -> s.DiskWriteTotal
      [] d = "netUp" -> s.NetUpTotal
      [] d = "netDown" -> s.NetDownTotal

(***************************************************************************)
(* The cache of node stats: the map and the mutex that guards it, the      *)
(* updater goroutine and the goroutines of the calls being served.         *)
(***************************************************************************)
Nodes == {"n1", "n2"}

\* The calls being served, one of each entry point.
Handlers == {"Filter", "Score"}

\* The mutex, unlocked.
FreeMutex == [writer |-> "none", readers |-> {}]

\* A key the map does not hold.
Absent == [present |-> FALSE, value |-> ZeroStats]

\* The updater between two rounds.
IdleUpdater == [pc |-> "idle", todo |-> <<>>, val |-> ZeroStats]

\* A handler between two calls.
IdleHandler ==
    [pc |-> "idle", node |-> "n1", miss |-> FALSE, got |-> ZeroStats,
     val |-> ZeroStats, out |-> "none", score |-> 0]

\* make(map[string]NodeStats), the updater started, no call under way.
IdleCache ==
    /\ mu = FreeMutex
    /\ nodeStats = [n \in Nodes |-> Absent]
    /\ updater = IdleUpdater
    /\ handler = [h \in Handlers |-> IdleHandler]
    /\ stored = [n \in Nodes |-> {}]

(***************************************************************************)
(* The metrics source.  A query returns an error or a map from instance    *)
(* labels to samples.  For one node the lookups of the source distinguish  *)
(*   err    the query failed                                               *)
(*   empty  the map holds no sample                                        *)
(*   own    the map holds a sample under the node's own key                *)
(*   other  the map holds a sample, under another instance's key only      *)
(***************************************************************************)
Err == [kind |-> "err", v |-> 0]

Empty == [kind |-> "empty", v |-> 0]

Own(x) == [kind |-> "own", v |-> x]

Other(x) == [kind |-> "other", v |-> x]

\* if usage, exists := m[nodeName+":9100"]; exists {..} else { substring match;
\* if !found && len(m) > 0 { any sample } }: some sample is taken whenever the
\* map holds one.
FoundAny(r) == r.kind \in {"own", "other"}

\* value, ok := result[nodeName]: the plugin looks the node's own key up, only.
FoundExact(r) == r.kind = "own"

(***************************************************************************)
(* getNodeStats of the preemptive scheduler (src/unnamed/part_009).        *)
(***************************************************************************)
\* var usage float64; if err != nil { usage = 0.0 } else { lookup }: the usage
\* stays 0 on an error and when the map holds no sample.
usageOf(o) == IF FoundAny(o) THEN o.v ELSE 0

\* The capacity lookups: the fallback on an error only; a map that holds no
\* sample leaves the variable at its zero value.
capacityOf(o, fallback) ==
    IF o.kind = "err" THEN fallback ELSE IF FoundAny(o) THEN o.v ELSE 0

getNodeStats(r) ==
    LET cpuFound == FoundAny(r.cpuUsage)
        memFound == FoundAny(r.memUsed)
        memTotal == IF ~memFound THEN 80
                    ELSE capacityOf(r.memTotal, 80)
        diskReadTotal == capacityOf(r.diskReadTotal, 100)
        diskWriteTotal == capacityOf(r.diskWriteTotal, 100)
        netSpeed == capacityOf(r.netSpeed, 1000)
    IN  [CPUTotal |-> 6000,
         CPUFree |-> IF cpuFound THEN 6000 - r.cpuUsage.v ELSE 2000,
         MemTotal |-> memTotal,
         MemFree |-> IF memFound THEN memTotal - r.memUsed.v ELSE 40,
         DiskReadTotal |-> diskReadTotal,
         DiskReadFree |-> diskReadTotal - usageOf(r.diskReadUsage),
         DiskWriteTotal |-> diskWriteTotal,
         DiskWriteFree |-> diskWriteTotal - usageOf(r.diskWriteUsage),
         NetUpTotal |-> netSpeed,
         NetUpFree |-> netSpeed - usageOf(r.netUpUsage),
         NetDownTotal |-> netSpeed,
         NetDownFree |-> netSpeed - usageOf(r.netDownUsage)]

(***************************************************************************)
(* GetNodeStats of the extender (k3s-scheduler-patch.yaml, the metrics     *)
(* file of package sched_extension).                                       *)
(***************************************************************************)
\* if free < 0 { free = 0 }
clampZero(x) == IF x < 0 THEN 0 ELSE x

\* One disk or network block: the rates of the node's instances are summed, an
\* arbitrary sample stands in when the sum is 0, and a sum still 0 takes the
\* defaults; else the capacity is `factor` times the rate.
rateBlock(o, factor, defTotal, defFree) ==
    IF o.kind = "err" THEN [total |-> defTotal, free |-> defFree]
    ELSE LET rate == IF FoundAny(o) THEN o.v ELSE 0
         IN  IF rate = 0 THEN [total |-> defTotal, free |-> defFree]
             ELSE [total |-> factor * rate,
                   free |-> clampZero(factor * rate - rate)]

GetNodeStats(r) ==
    LET cpuFound == FoundAny(r.cpuUsage)
        dr == rateBlock(r.diskRead, 3, 500, 300)
        dw == rateBlock(r.diskWrite, 3, 200, 100)
        nu == rateBlock(r.netUp, 5, 100, 80)
        nd == rateBlock(r.netDown, 5, 200, 150)
    IN  [CPUTotal |-> 6000,
         CPUFree |-> IF cpuFound THEN clampZero(6000 - r.cpuUsage.v) ELSE 2000,
         MemTotal |-> IF FoundAny(r.memTotal) THEN r.memTotal.v ELSE 320,
         MemFree |-> IF FoundAny(r.memFree) THEN r.memFree.v ELSE 160,
         DiskReadTotal |-> dr.total, DiskReadFree |-> dr.free,
         DiskWriteTotal |-> dw.total, DiskWriteFree |-> dw.free,
         NetUpTotal |-> nu.total, NetUpFree |-> nu.free,
         NetDownTotal |-> nd.total, NetDownFree |-> nd.free]

(***************************************************************************)
(* Plugin.getNodeStats (src/custom-scheduler/pkg/multiresource/metrics.go).*)
(* p.promClient is set by New and never nil, so the error return of the    *)
(* function is not taken; a client without API makes every query fail.     *)
(***************************************************************************)
\* total * 0.2
fifth(x) == x \div 5

\* One disk or network block of the plugin: nothing is assigned on an error;
\* the observed rate is taken as 80% of the capacity; the defaults apply when
\* the node's key is absent.
pluginRateBlock(o, defTotal) ==
    IF o.kind = "err" THEN [total |-> 0, free |-> 0]
    ELSE IF FoundExact(o)
         THEN [total |-> (o.v * 5) \div 4, free |-> (o.v * 5) \div 4 - o.v]
         ELSE [total |-> defTotal, free |-> fifth(defTotal)]

Plugin_getNodeStats(r) ==
    LET cpuTotal == IF r.cpuCount.kind = "err" THEN 0
                    ELSE IF FoundExact(r.cpuCount) THEN r.cpuCount.v
                    ELSE 1000
        ratio == IF r.cpuUsageRatio.v > 1000 THEN 1000 ELSE r.cpuUsageRatio.v
        memTotal == IF r.memTotal.kind = "err" THEN 0
                    ELSE IF FoundExact(r.memTotal) THEN r.memTotal.v
                    ELSE 40
        dr == pluginRateBlock(r.diskRead, 100)
        dw == pluginRateBlock(r.diskWrite, 50)
        nu == pluginRateBlock(r.netUp, 125)
        nd == pluginRateBlock(r.netDown, 125)
    IN  [CPUTotal |-> cpuTotal,
         CPUFree |-> IF FoundExact(r.cpuUsageRatio)
                     THEN (cpuTotal * (1000 - ratio)) \div 1000
                     ELSE fifth(cpuTotal),
         MemTotal |-> memTotal,
         MemFree |-> IF FoundExact(r.memAvailable) THEN r.memAvailable.v
                     ELSE fifth(memTotal),
         DiskReadTotal |-> dr.total, DiskReadFree |-> dr.free,
         DiskWriteTotal |-> dw.total, DiskWriteFree |-> dw.free,
         NetUpTotal |-> nu.total, NetUpFree |-> nu.free,
         NetDownTotal |-> nd.total, NetDownFree |-> nd.free]

\* The fetch of a front end.
FetchOf(i, r) ==
    CASE i = "plugin" -> Plugin_getNodeStats(r)
      [] i = "extender" -> GetNodeStats(r)
      [] i = "preemptive" -> getNodeStats(r)

(***************************************************************************)
(* The answers the metrics source is taken to give to one query: an error, *)
(* an empty map, or a sample out of `samples` under the node's own key or  *)
(* (for `others`) under another instance's key.                            *)
(***************************************************************************)
Outcomes(samples, others) ==
    {Err, Empty} \cup {Own(x) : x \in samples} \cup {Other(x) : x \in others}

PreemptiveResponses ==
    [cpuUsage : Outcomes({2000, 7000}, {2000}),
     memUsed : Outcomes({20}, {}),
     memTotal : Outcomes({60}, {}),
     diskReadUsage : Outcomes({40}, {}),
     diskReadTotal : Outcomes({200}, {}),
     diskWriteUsage : Outcomes({40}, {}),
     diskWriteTotal : Outcomes({200}, {}),
     netUpUsage : Outcomes({400}, {}),
     netDownUsage : Outcomes({400}, {}),
     netSpeed : Outcomes({2000}, {})]

ExtenderResponses ==
    [cpuUsage : Outcomes({2000, 7000}, {2000}),
     memTotal : Outcomes({160}, {}),
     memFree : Outcomes({80, 200}, {}),
     diskRead : Outcomes({0, 40}, {40}),
     diskWrite : Outcomes({40}, {}),
     netUp : Outcomes({40}, {}),
     netDown : Outcomes({40}, {})]

PluginResponses ==
    [cpuCount : Outcomes({4000}, {4000}),
     cpuUsageRatio : Outcomes({500, 1500}, {}),
     memTotal : Outcomes({80}, {}),
     memAvailable : Outcomes({40}, {}),
     diskRead : Outcomes({40}, {40}),
     diskWrite : Outcomes({40}, {}),
     netUp : Outcomes({40}, {}),
     netDown : Outcomes({40}, {})]

Responses(i) ==
    CASE i = "plugin" -> PluginResponses
      [] i = "extender" -> ExtenderResponses
      [] i = "preemptive" -> PreemptiveResponses

(***************************************************************************)
(* SpecStats: one node-stats fetch after another, each against a metrics   *)
(* source that answers every query in any of the ways above.               *)
(***************************************************************************)
InitStats ==
    /\ impl \in Impls
    /\ resp = <<>>
    /\ stats = ZeroStats
    /\ fetched = FALSE
    /\ alpha = 0
    /\ IdleDecide
    /\ IdlePreempt
    /\ IdleCache
    /\ IdleGhost
    /\ IdleServe
    /\ IdleCycle

Fetch(i) ==
    /\ impl = i
    /\ ~fetched
    /\ \E r \in Responses(i) :
          /\ resp' = r
          /\ stats' = FetchOf(i, r)
    /\ fetched' = TRUE
    /\ UNCHANGED <<varsGhost, varsServe, varsCycle, impl, varsDecide, varsPreempt, varsCache>>

\* The caller is done with the value; the next fetch starts afresh.
FetchDone ==
    /\ fetched
    /\ resp' = <<>>
    /\ stats' = ZeroStats
    /\ fetched' = FALSE
    /\ UNCHANGED <<varsGhost, varsServe, varsCycle, impl, varsDecide, varsPreempt, varsCache>>

NextStats ==
    \/ Fetch("plugin")
    \/ Fetch("extender")
    \/ Fetch("preemptive")
    \/ FetchDone

SpecStats == InitStats /\ [][NextStats]_vars

\* C6: every NodeStats value a node-stats fetch returns has 0 <= free <= total
\* in each of the six dimensions, whatever the metrics source answered.
C6_FreeWithinTotal ==
    fetched => \A d \in DimSet :
                  0 <= Free(stats, d) /\ Free(stats, d) <= Total(stats, d)

\* The dimensions whose total and free a query of the fetch decides.
QueryDims(q) ==
    CASE q \in {"cpuUsage", "cpuCount", "cpuUsageRatio"} -> {"cpu"}
      [] q \in {"memUsed", "memTotal", "memFree", "memAvailable"} -> {"mem"}
      [] q \in {"diskRead", "diskReadUsage", "diskReadTotal"} -> {"diskRead"}
      [] q \in {"diskWrite", "diskWriteUsage", "diskWriteTotal"} -> {"diskWrite"}
      [] q \in {"netUp", "netUpUsage"} -> {"netUp"}
      [] q \in {"netDown", "netDownUsage"} -> {"netDown"}
      [] q = "netSpeed" -> {"netUp", "netDown"}

\* C7: in each fetch, a query that returns an error and the same query
\* returning no sample give the same totals and frees, and neither leaves the
\* query's dimension at zero.
C7_ErrorLikeEmpty ==
    fetched =>
        \A q \in DOMAIN resp :
            resp[q].kind = "err" =>
                LET e == FetchOf(impl, [resp EXCEPT ![q] = Empty])
                IN  \A d \in QueryDims(q) :
                        /\ Total(e, d) = Total(stats, d)
                        /\ Free(e, d) = Free(stats, d)
                        /\ Total(stats, d) # 0
                        /\ Free(stats, d) # 0

(***************************************************************************)
(* The admission predicates.                                               *)
(***************************************************************************)
\* The demand of a pod in a dimension (the `req` column of the resources table).
Req(p, d) ==
    CASE d = "cpu" -> p.CPU
      [] d = "mem" -> p.Mem
      [] d = "diskRead" -> p.DiskRead
      [] d = "diskWrite" -> p.DiskWrite
      [] d = "netUp" -> p.NetUp
      [] d = "netDown" -> p.NetDown

\* Plugin.canScheduleMulti (src/unnamed/part_003): six checks
\* `if podReq.X > nodeStats.XFree { return false }`, then true.
Plugin_canScheduleMulti(p, ns) ==
    /\ ~(p.CPU > ns.CPUFree)
    /\ ~(p.Mem > ns.MemFree)
    /\ ~(p.DiskRead > ns.DiskReadFree)
    /\ ~(p.DiskWrite > ns.DiskWriteFree)
    /\ ~(p.NetUp > ns.NetUpFree)
    /\ ~(p.NetDown > ns.NetDownFree)

\* CanScheduleMulti of the extender (extender.go); alpha is not read.
CanScheduleMulti(p, s, a) ==
    /\ ~(p.CPU > s.CPUFree \/ p.Mem > s.MemFree)
    /\ ~(p.DiskRead > s.DiskReadFree \/ p.DiskWrite > s.DiskWriteFree)
    /\ ~(p.NetUp > s.NetUpFree \/ p.NetDown > s.NetDownFree)

\* A ceiling no dimension ever exceeds.
utilAboveNever(free, total, req, a) == FALSE

\* A ceiling on what is left over: (free - req) / total > alpha.
leftoverAbove(free, total, req, a) ==
    total > 0 /\ (free - req) * 100 > a * total

\* expectedUtil := 1 - ((free - req) / total); expectedUtil > alpha.
\* With total > 0 the comparison is multiplied by 100 * total; a zero total
\* makes the quotient +Inf, NaN or -Inf, a negative total turns the
\* comparison.  The model compares exactly, the source in float64.
utilAbove(free, total, req, a) ==
    LET left == free - req
    IN  IF total = 0 THEN left < 0
        ELSE IF total > 0 THEN (total - left) * 100 > a * total
        ELSE (total - left) * 100 < a * total

\* The loop over the resources table without its skip of the dimensions the
\* pod does not ask for.
canScheduleMultiNoSkip(pod, s, a) ==
    \A i \in 1..Len(Dims) :
        LET r == [free |-> Free(s, Dims[i]), total |-> Total(s, Dims[i]),
                  req |-> Req(pod, Dims[i])]
        IN  /\ ~(r.free < r.req)
            /\ ~utilAbove(r.free, r.total, r.req, a)

\* canScheduleMulti of the preemptive scheduler (src/unnamed/part_009): the
\* loop over the resources table; a dimension the pod does not ask for is
\* skipped.
canScheduleMulti(pod, s, a) ==
    \A i \in 1..Len(Dims) :
        LET r == [free |-> Free(s, Dims[i]), total |-> Total(s, Dims[i]),
                  req |-> Req(pod, Dims[i])]
        IN  \/ r.req = 0
            \/ /\ ~(r.free < r.req)
               /\ ~utilAbove(r.free, r.total, r.req, a)

\* The admission predicate of a front end.
AdmitOf(i, p, s, a) ==
    CASE i = "plugin" -> Plugin_canScheduleMulti(p, s)
      [] i = "extender" -> CanScheduleMulti(p, s, a)
      [] i = "preemptive" -> canScheduleMulti(p, s, a)

(***************************************************************************)
(* The dominant-share policy (extender ScoreMultiResource, preemptive      *)
(* scoreMultiResource).                                                    *)
(***************************************************************************)
Abs(x) == IF x < 0 THEN -x ELSE x

\* share := r.req / r.free; share > dominantShare, with dominantShare >= 0:
\* only a share above zero can become the dominant one.  req / 0 is +Inf for
\* a positive req.
PositiveShare(p, s, d) ==
    LET r == Req(p, d)
        f == Free(s, d)
    IN  /\ r # 0
        /\ \/ r > 0 /\ f >= 0
           \/ r < 0 /\ f < 0

\* A policy that scores the dominant share itself: maxScore * dominantShare,
\* cut at maxScore.
dominantShareAsScore(p, s, maxScore, none) ==
    LET P == {d \in DimSet : PositiveShare(p, s, d)}
    IN  IF P = {} THEN none
        ELSE IF \E d \in P : Free(s, d) = 0 THEN maxScore
        ELSE LET dom == CHOOSE d \in P : \A e \in P :
                            Abs(Req(p, e)) * Abs(Free(s, d))
                                <= Abs(Req(p, d)) * Abs(Free(s, e))
                 num == Abs(Req(p, dom))
                 den == Abs(Free(s, dom))
             IN  IF num >= den THEN maxScore
                 ELSE (maxScore * num) \div den

\* score := maxScore - maxScore * dominantShare; if score < 0 { score = 0 };
\* int(score).  `none` is what the function returns when no share is above 0.
dominantShareScore(p, s, maxScore, none) ==
    LET P == {d \in DimSet : PositiveShare(p, s, d)}
    IN  IF P = {} THEN none
        ELSE IF \E d \in P : Free(s, d) = 0 THEN 0
        ELSE LET dom == CHOOSE d \in P : \A e \in P :
                            Abs(Req(p, e)) * Abs(Free(s, d))
                                <= Abs(Req(p, d)) * Abs(Free(s, e))
                 num == Abs(Req(p, dom))
                 den == Abs(Free(s, dom))
             IN  IF num >= den THEN 0
                 ELSE (maxScore * (den - num)) \div den

\* ScoreMultiResource of the extender (extender.go).
ScoreMultiResource(p, s, maxScore) ==
    dominantShareScore(p, s, maxScore, maxScore)

\* scoreMultiResource of the preemptive scheduler (src/unnamed/part_009):
\* if dominantShare == 0 { return maxScore / 2 }.
scoreMultiResource(pod, s, maxScore) ==
    dominantShareScore(pod, s, maxScore, maxScore \div 2)

(***************************************************************************)
(* The weighted-usage policy (Plugin.scoreMultiResource, score.go).  A     *)
(* usage is an exact fraction num/den in lowest terms, or NaN.             *)
(***************************************************************************)
RECURSIVE GCD(_, _)
GCD(a, b) == IF b = 0 THEN a ELSE GCD(b, a % b)

LCM(a, b) == (a \div GCD(a, b)) * b

NaN == [nan |-> TRUE, num |-> 0, den |-> 1]

Frac(n, d) == [nan |-> FALSE, num |-> n \div GCD(n, d), den |-> d \div GCD(n, d)]

\* usage := (total - free + req) / total, then
\* math.Max(0.0, math.Min(1.0, usage)): a quotient x/0 is +Inf or -Inf and
\* is cut to 1 or 0; 0/0 is NaN and math.Min and math.Max hand a NaN on.
\* The disk and network usages are 0 unless total > 0 (`guarded`).
usageAfter(total, free, req, guarded) ==
    LET n == total - free + req
    IN  IF guarded /\ ~(total > 0) THEN Frac(0, 1)
        ELSE IF total = 0
             THEN IF n = 0 THEN NaN ELSE IF n > 0 THEN Frac(1, 1) ELSE Frac(0, 1)
        ELSE IF (n > 0) # (total > 0) \/ n = 0 THEN Frac(0, 1)
        ELSE IF Abs(n) >= Abs(total) THEN Frac(1, 1)
        ELSE Frac(Abs(n), Abs(total))

\* Plugin.resourceToScore: the score of one usage, times its weight.  With
\* alpha in percent and the weight in fortieths the result is the numerator
\* of a fraction over usage.den * 4000.
resourceToScore(usage, weight, a) ==
    LET spreading == usage.den - usage.num
        packing == usage.num
    IN  IF a < 50
        THEN (spreading * (100 - a * 2) + packing * (a * 2)) * weight
        ELSE (spreading * (200 - a * 2) + packing * ((a - 50) * 2)) * weight

\* if finalScore > p.maxScore { finalScore = p.maxScore }
capAtMax(x, maxScore) == IF x > maxScore THEN maxScore ELSE x

\* Plugin.scoreMultiResource.  nanInt is what int(x) yields for a NaN x on
\* the build at hand.  The weights 0.4, 0.3 and 0.075 are 16, 12 and 3
\* fortieths.  The model adds the six terms exactly, the source in float64.
Plugin_scoreMultiResource(p, ns, a, maxScore, nanInt) ==
    LET cpuUsage == usageAfter(ns.CPUTotal, ns.CPUFree, p.CPU, FALSE)
        memUsage == usageAfter(ns.MemTotal, ns.MemFree, p.Mem, FALSE)
        diskReadUsage == usageAfter(ns.DiskReadTotal,
                                    ns.DiskReadFree, p.DiskRead, TRUE)
        diskWriteUsage == usageAfter(ns.DiskWriteTotal,
                                     ns.DiskWriteFree, p.DiskWrite, TRUE)
        netUpUsage == usageAfter(ns.NetUpTotal,
                                 ns.NetUpFree, p.NetUp, TRUE)
        netDownUsage == usageAfter(ns.NetDownTotal,
                                   ns.NetDownFree, p.NetDown, TRUE)
        D == LCM(cpuUsage.den, LCM(memUsage.den, LCM(diskReadUsage.den,
             LCM(diskWriteUsage.den, LCM(netUpUsage.den, netDownUsage.den)))))
        term(u, w) == resourceToScore(u, w, a) * (D \div u.den)
        totalScore == term(cpuUsage, 16) + term(memUsage, 12)
                      + term(diskReadUsage, 3) + term(diskWriteUsage, 3)
                      + term(netUpUsage, 3) + term(netDownUsage, 3)
    IN  IF cpuUsage.nan \/ memUsage.nan
        THEN capAtMax(nanInt, maxScore)
        ELSE capAtMax((totalScore * maxScore) \div (D * 4000), maxScore)

\* The least and the greatest int, cut to the integers of the checker.
IntMin == -2147483647

IntMax == 2147483647

\* int(x) of a NaN x: "the conversion succeeds but the result value is
\* implementation-dependent" (the Go specification); the least int on amd64,
\* 0 on arm64, the greatest int on riscv64.
NaNToInt == {IntMin, 0, IntMax}

\* The scores a front end's policy can return.
ScoresOf(i, p, s, a, maxScore) ==
    CASE i = "plugin" ->
             {Plugin_scoreMultiResource(p, s, a, maxScore, x) : x \in NaNToInt}
      [] i = "extender" -> {ScoreMultiResource(p, s, maxScore)}
      [] i = "preemptive" -> {scoreMultiResource(p, s, maxScore)}

(***************************************************************************)
(* SpecDecide: the admission predicate and the scoring policy of a front   *)
(* end, applied to the node stats a fetch returned and to the demand of a  *)
(* pod.                                                                    *)
(***************************************************************************)
\* maxScore := 100
MaxScore == 100

\* The values of alpha the front ends are configured with, in percent.
Alphas == {0, 30, 50, 80, 100}

\* The demands of the pods: a pod asks for a resource or leaves it out.
PodRequests ==
    [CPU : {0, 3000}, Mem : {0, 30}, DiskRead : {0, 60}, DiskWrite : {0, 30},
     NetUp : {0, 30}, NetDown : {0}, Priority : {0}]

\* The answers of the metrics source behind the node stats under decision.
StoredResponses(i) ==
    CASE i = "plugin" ->
             [cpuCount : {Err, Empty, Own(4000)},
              cpuUsageRatio : {Err, Own(500), Own(1500)},
              memTotal : {Err, Empty, Own(80)},
              memAvailable : {Err, Own(40)},
              diskRead : {Err, Empty, Own(40)},
              diskWrite : {Err, Empty},
              netUp : {Err, Empty},
              netDown : {Empty}]
      [] i = "extender" ->
             [cpuUsage : {Err, Own(2000), Own(7000)},
              memTotal : {Err, Own(160)},
              memFree : {Err, Own(80), Own(200)},
              diskRead : {Err, Own(0), Own(40)},
              diskWrite : {Err, Own(40)},
              netUp : {Err, Own(40)},
              netDown : {Err}]
      [] i = "preemptive" ->
             [cpuUsage : {Err, Own(2000), Own(7000)},
              memUsed : {Err, Own(20)},
              memTotal : {Err, Empty, Own(60)},
              diskReadUsage : {Err, Own(40)},
              diskReadTotal : {Err, Empty, Own(200)},
              diskWriteUsage : {Own(40)},
              diskWriteTotal : {Err, Empty},
              netUpUsage : {Err, Own(400)},
              netDownUsage : {Err},
              netSpeed : {Err, Empty}]

InitDecide ==
    /\ impl \in Impls
    /\ alpha \in Alphas
    /\ resp = <<>>
    /\ stats = ZeroStats
    /\ fetched = FALSE
    /\ IdleDecide
    /\ IdlePreempt
    /\ IdleCache
    /\ IdleGhost
    /\ IdleServe
    /\ IdleCycle

\* The node stats arrive: updateAllNodeStats of the plugin and the extender
\* fills the cache, the preemptive scheduler fetches before it decides.
StoreStats(i) ==
    /\ impl = i
    /\ ~fetched
    /\ \E r \in StoredResponses(i) :
          /\ resp' = r
          /\ stats' = FetchOf(i, r)
    /\ fetched' = TRUE
    /\ UNCHANGED <<varsGhost, varsServe, varsCycle, impl, varsDecide, varsPreempt, varsCache>>

\* Filter of the plugin and the extender on a cache hit, and the admission
\* test of the preemptive scheduler: the predicate decides.
Filter(i) ==
    /\ impl = i
    /\ fetched
    /\ op = "none"
    /\ \E p \in PodRequests :
          /\ podReq' = p
          /\ admitted' = AdmitOf(i, p, stats, alpha)
    /\ op' = "Filter"
    /\ UNCHANGED <<varsGhost, varsServe, varsCycle, varsStats, alpha, score, varsPreempt, varsCache>>

\* Score of the plugin and Prioritize of the extender on a cache hit, and
\* scoreMultiResource of the preemptive scheduler.
Score(i) ==
    /\ impl = i
    /\ fetched
    /\ op = "none"
    /\ \E p \in PodRequests :
          /\ podReq' = p
          /\ score' \in ScoresOf(i, p, stats, alpha, MaxScore)
    /\ op' = "Score"
    /\ UNCHANGED <<varsGhost, varsServe, varsCycle, varsStats, alpha, admitted, varsPreempt, varsCache>>

\* The entry point has returned; the next pod is up.
Decided ==
    /\ op # "none"
    /\ podReq' = ZeroRequest
    /\ op' = "none"
    /\ admitted' = FALSE
    /\ score' = 0
    /\ UNCHANGED <<varsGhost, varsServe, varsCycle, varsStats, alpha, varsPreempt, varsCache>>

NextDecide ==
    \/ StoreStats("plugin")
    \/ StoreStats("extender")
    \/ StoreStats("preemptive")
    \/ Filter("plugin")
    \/ Filter("extender")
    \/ Filter("preemptive")
    \/ Score("plugin")
    \/ Score("extender")
    \/ Score("preemptive")
    \/ Decided

SpecDecide == InitDecide /\ [][NextDecide]_vars

\* C1: in each admission predicate, a demand that exceeds the node's free
\* amount in some dimension is rejected.
C1_ShortDimensionRejects ==
    (op = "Filter" /\ \E d \in DimSet : Req(podReq, d) > Free(stats, d))
        => ~admitted

\* C10: every score a scoring policy returns lies in 0..maxScore.
C10_ScoreInRange ==
    op = "Score" => (0 <= score /\ score <= MaxScore)

(***************************************************************************)
(* The preemption algorithm of the preemptive scheduler                    *)
(* (src/unnamed/part_009).  A pod of the API server is a record            *)
(* [phase, node, Priority, CPURequest, MemRequest]; its name is its index  *)
(* in `cluster`.  A RunningPod is [Name, CPURequest, MemRequest, Priority].*)
(***************************************************************************)
\* The greatest number of pods of the cluster and the greatest pod priority.
MaxPods == 3

MaxPrio == 2

\* getRunningPods: the pods the list call with the field selector
\* spec.nodeName = nodeName returns, less those whose phase is not Running.
getRunningPods(cl, nodeName) ==
    {[Name |-> n, CPURequest |-> cl[n].CPURequest,
      MemRequest |-> cl[n].MemRequest, Priority |-> cl[n].Priority] :
        n \in {m \in DOMAIN cl : cl[m].node = nodeName
                                  /\ cl[m].phase = "Running"}}

\* A candidate test that lets a pod of the demand's own priority in.
isCandidateOrEqual(rp, pod) == rp.Priority <= pod.Priority

\* if rp.Priority < pod.Priority { candidates = append(candidates, rp) }
isCandidate(rp, pod) == rp.Priority < pod.Priority

Candidates(runningPods, pod) == {rp \in runningPods : isCandidate(rp, pod)}

\* A less function that sorts the highest priority first.
lessDescending(a, b) == a.Priority > b.Priority

\* The less function handed to sort.Slice.
less(a, b) == a.Priority < b.Priority

\* sort.Slice(candidates, less): the sort is not stable, so any order of the
\* candidates in which no element is less than an earlier one can come out.
SortOutcomes(cands) ==
    {s \in [1..Cardinality(cands) -> cands] :
        /\ \A i, j \in DOMAIN s : i # j => s[i] # s[j]
        /\ \A i, j \in DOMAIN s : i < j => ~less(s[j], s[i])}

\* freedResources.cpu and .mem after the first k candidates.
RECURSIVE freedCPU(_, _)
freedCPU(s, k) == IF k = 0 THEN 0 ELSE freedCPU(s, k - 1) + s[k].CPURequest

RECURSIVE freedMem(_, _)
freedMem(s, k) == IF k = 0 THEN 0 ELSE freedMem(s, k - 1) + s[k].MemRequest

\* A sufficiency test that looks at the CPU only.
canScheduleAfterPreemptionCPU(st, pod, s, k) ==
    st.CPUFree + freedCPU(s, k) >= pod.CPU

\* canScheduleAfterPreemption, after the k-th candidate has been added.
canScheduleAfterPreemption(st, pod, s, k) ==
    /\ st.CPUFree + freedCPU(s, k) >= pod.CPU
    /\ st.MemFree + freedMem(s, k) >= pod.Mem

\* The number of victims when the loop over the candidates evicts: the first
\* k >= 1 with canScheduleAfterPreemption, or 0 when the loop runs out.
victimCount(st, pod, s) ==
    LET K == {k \in 1..Len(s) : canScheduleAfterPreemption(st, pod, s, k)}
    IN  IF K = {} THEN 0 ELSE CHOOSE k \in K : \A j \in K : k <= j

\* An attempt that goes on to evict the victims after the one whose
\* eviction call failed.
attemptPreemptionMultiGoesOn(list, pod, st, s, f) ==
    LET none == [result |-> FALSE, requested |-> <<>>]
        k == victimCount(st, pod, s)
        names == [i \in 1..k |-> s[i].Name]
    IN  IF list.err THEN none
        ELSE IF Candidates(list.pods, pod) = {} THEN none
        ELSE IF k = 0 THEN none
        ELSE [result |-> \A i \in 1..k : names[i] # f, requested |-> names]

\* attemptPreemptionMulti.  list is the outcome of getRunningPods, s the
\* order sort.Slice left the candidates in, f the pod whose eviction call
\* fails (0: none does).  The result is the return value and the names
\* evictPod was called with, in call order.
attemptPreemptionMulti(list, pod, st, s, f) ==
    LET none == [result |-> FALSE, requested |-> <<>>]
        k == victimCount(st, pod, s)
        names == [i \in 1..k |-> s[i].Name]
        failing == {i \in 1..k : names[i] = f}
    IN  IF list.err THEN none
        ELSE IF Candidates(list.pods, pod) = {} THEN none
        ELSE IF k = 0 THEN none
        ELSE IF failing = {} THEN [result |-> TRUE, requested |-> names]
        ELSE [result |-> FALSE,
              requested |-> SubSeq(names, 1, CHOOSE i \in failing : TRUE)]

(***************************************************************************)
(* SpecPreempt: findNodeForPod of the preemptive scheduler at one node:    *)
(* the stats are fetched, the admission predicate is tried, preemption is  *)
(* attempted when it fails, and the node is fetched and tried anew after   *)
(* a successful preemption.                                                *)
(***************************************************************************)
\* The node findNodeForPod is at.
Node == "n1"

\* preemption := flag.Bool("preemption", true, ..)
enablePreemption == TRUE

\* The pods the API server can hold: running on the node, pending on it, or
\* running on another node.
PodSpecs ==
    {p \in [phase : {"Running", "Pending"}, node : {"n1", "n2"},
            Priority : 0..MaxPrio, CPURequest : {1000, 2000},
            MemRequest : {10}] :
        ~(p.phase = "Pending" /\ p.node = "n2")}

\* A rank that orders the pod records.
Rank(p) ==
    (IF p.phase = "Running" THEN 0 ELSE 100) + (IF p.node = "n1" THEN 0 ELSE 50)
        + p.Priority * 2 + (p.CPURequest \div 2000)

\* The clusters.  The algorithm reads the pods as a set (the order sort.Slice
\* leaves is any admissible one), so of the clusters that differ in the
\* naming of the pods only, the one with the pods in rank order is taken.
Clusters ==
    {c \in [1..MaxPods -> PodSpecs] :
        \A i \in 1..(MaxPods - 1) : Rank(c[i]) <= Rank(c[i + 1])}

\* The demands of the pending pod, which is of the highest priority:
\* extractPodRequirements leaves the disk and network demands at 0.
PendingRequests ==
    [CPU : {2000, 3000}, Mem : {0, 40}, DiskRead : {0}, DiskWrite : {0},
     NetUp : {0}, NetDown : {0}, Priority : {MaxPrio}]

\* The answers of the metrics source for the node: 2 (the fallback), 5 or 1
\* of the 6 cores free, 1 GiB of the 8 GiB free.
NodeResponses ==
    [cpuUsage : {Err, Own(1000), Own(5000)},
     memUsed : {Own(70)},
     memTotal : {Err},
     diskReadUsage : {Err}, diskReadTotal : {Err},
     diskWriteUsage : {Err}, diskWriteTotal : {Err},
     netUpUsage : {Err}, netDownUsage : {Err}, netSpeed : {Err}]

InitPreempt ==
    /\ impl = "preemptive"
    /\ alpha = 80
    /\ resp = <<>>
    /\ stats = ZeroStats
    /\ fetched = FALSE
    /\ podReq \in PendingRequests
    /\ op = "none"
    /\ admitted = FALSE
    /\ score = 0
    /\ cluster \in Clusters
    /\ pc = "start"
    /\ NoAttempt
    /\ IdleCache
    /\ IdleGhost
    /\ IdleServe
    /\ IdleCycle

\* stats, err := getNodeStats(nodeName)
FetchNode ==
    /\ pc = "start"
    /\ \E r \in NodeResponses :
          /\ resp' = r
          /\ stats' = getNodeStats(r)
    /\ fetched' = TRUE
    /\ pc' = "fetched"
    /\ UNCHANGED <<varsGhost, varsServe, varsCycle, impl, varsDecide, cluster, listFailed, sorted, requested,
                   refused, result, varsCache>>

\* if canScheduleMulti(podReq, stats, alpha) { return nodeName, nil }
Admit ==
    /\ pc = "fetched"
    /\ canScheduleMulti(podReq, stats, alpha)
    /\ admitted' = TRUE
    /\ op' = "Filter"
    /\ pc' = "done"
    /\ UNCHANGED <<varsGhost, varsServe, varsCycle, varsStats, alpha, podReq, score, cluster, listFailed,
                   sorted, requested, refused, result, varsCache>>

\* The pods the eviction calls that succeeded remove.
afterEvictions(cl, names, f) ==
    [n \in DOMAIN cl |->
        IF n # f /\ \E i \in DOMAIN names : names[i] = n
        THEN [cl[n] EXCEPT !.phase = "Evicted"]
        ELSE cl[n]]

\* if enablePreemption { if attemptPreemptionMulti(..) { .. } }: the call,
\* with the answer of the list call, the order the sort leaves and the
\* eviction call that fails as its inputs.
AttemptPreemption ==
    /\ pc = "fetched"
    /\ ~canScheduleMulti(podReq, stats, alpha)
    /\ enablePreemption
    /\ \E listErr \in BOOLEAN :
          LET list == [err |-> listErr,
                       pods |-> IF listErr THEN {}
                                ELSE getRunningPods(cluster, Node)]
          IN  \E s \in SortOutcomes(Candidates(list.pods, podReq)) :
              \E f \in {0} \cup {s[i].Name : i \in 1..victimCount(stats, podReq, s)} :
                  LET out == attemptPreemptionMulti(list, podReq, stats, s, f)
                  IN  /\ listFailed' = listErr
                      /\ sorted' = s
                      /\ requested' = out.requested
                      /\ refused' = f
                      /\ result' = IF out.result THEN "true" ELSE "false"
                      /\ cluster' = afterEvictions(cluster, out.requested, f)
                      /\ pc' = IF out.result THEN "preempted" ELSE "done"
    /\ UNCHANGED <<varsGhost, varsServe, varsCycle, varsStats, varsDecide, varsCache>>

\* stats, err = getNodeStats(nodeName);
\* if canScheduleMulti(podReq, stats, alpha) { return nodeName, nil }
Recheck ==
    /\ pc = "preempted"
    /\ \E r \in NodeResponses :
          /\ resp' = r
          /\ stats' = getNodeStats(r)
          /\ admitted' = canScheduleMulti(podReq, getNodeStats(r), alpha)
    /\ op' = "Filter"
    /\ pc' = "done"
    /\ UNCHANGED <<varsGhost, varsServe, varsCycle, impl, fetched, alpha, podReq, score, cluster, listFailed,
                   sorted, requested, refused, result, varsCache>>

NextPreempt ==
    \/ FetchNode
    \/ Admit
    \/ AttemptPreemption
    \/ Recheck

SpecPreempt == InitPreempt /\ [][NextPreempt]_vars

\* The running pods of a node with a priority below prio.
LowerRunning(cl, nodeName, prio) ==
    {n \in DOMAIN cl : /\ cl[n].phase = "Running"
                       /\ cl[n].node = nodeName
                       /\ cl[n].Priority < prio}

RECURSIVE SumCPU(_, _)
SumCPU(cl, S) ==
    IF S = {} THEN 0
    ELSE LET n == CHOOSE m \in S : TRUE
         IN  cl[n].CPURequest + SumCPU(cl, S \ {n})

RECURSIVE SumMem(_, _)
SumMem(cl, S) ==
    IF S = {} THEN 0
    ELSE LET n == CHOOSE m \in S : TRUE
         IN  cl[n].MemRequest + SumMem(cl, S \ {n})

\* The node's free CPU and memory plus the requests of the pods S cover the
\* demand.
CoveredBy(cl, st, pod, S) ==
    /\ st.CPUFree + SumCPU(cl, S) >= pod.CPU
    /\ st.MemFree + SumMem(cl, S) >= pod.Mem

\* The elements of a sequence.
Range(q) == {q[i] : i \in DOMAIN q}

\* The step in which attemptPreemptionMulti runs and returns.
AttemptReturns == pc = "fetched" /\ result' # "none"

\* C2: attemptPreemptionMulti calls evictPod only for pods that are running
\* on the given node with a priority strictly below the demand's; when there
\* is no such pod it returns false and calls evictPod for none.
C2_EvictsOnlyLowerPriorityRunning ==
    [][AttemptReturns =>
        /\ Range(requested') \subseteq LowerRunning(cluster, Node, podReq.Priority)
        /\ LowerRunning(cluster, Node, podReq.Priority) = {}
              => result' = "false" /\ requested' = <<>>]_vars

\* C2 happens: pods were evicted while a running pod of the node with the
\* demand's priority or above, and a pod that is not running, were passed by.
C2_Witness ==
    /\ result = "true"
    /\ requested # <<>>
    /\ \E n \in DOMAIN cluster : /\ cluster[n].phase = "Running"
                                 /\ cluster[n].node = Node
                                 /\ cluster[n].Priority >= podReq.Priority
    /\ \E n \in DOMAIN cluster : cluster[n].phase = "Pending"

\* C3: when the node's free CPU and memory plus the requests of all the
\* lower-priority running pods of the node do not cover the demand,
\* attemptPreemptionMulti returns false and calls evictPod for none.
C3_NoCoverNoEviction ==
    [][(AttemptReturns
          /\ ~CoveredBy(cluster, stats, podReq,
                        LowerRunning(cluster, Node, podReq.Priority)))
        => (result' = "false" /\ requested' = <<>>)]_vars

\* C3 happens: the list call succeeded, there were candidates, they did not
\* cover the demand, and the attempt returned false.
C3_Witness ==
    /\ result = "false"
    /\ ~listFailed
    /\ Len(sorted) >= 2
    /\ requested = <<>>
    /\ ~CoveredBy(cluster, stats, podReq,
                  LowerRunning(cluster, Node, podReq.Priority))

\* The evicted pods are a prefix of the candidates in ascending priority
\* order that reaches sufficiency: pods of the candidates, called for in
\* ascending priority order, none of them of a higher priority than a
\* candidate left running, and together enough.
EvictsAscendingPrefix(cl, st, pod, req) ==
    /\ Range(req) \subseteq LowerRunning(cl, Node, pod.Priority)
    /\ \A i, j \in DOMAIN req : i < j =>
          /\ req[i] # req[j]
          /\ cl[req[i]].Priority <= cl[req[j]].Priority
    /\ \A e \in Range(req) :
          \A c \in LowerRunning(cl, Node, pod.Priority) \ Range(req) :
              cl[e].Priority <= cl[c].Priority
    /\ CoveredBy(cl, st, pod, Range(req))

Raised(cl, st, S) ==
    [st EXCEPT !.CPUFree = @ + SumCPU(cl, S), !.MemFree = @ + SumMem(cl, S)]

\* C5: when attemptPreemptionMulti returns true for a node that failed
\* canScheduleMulti, the node stats with the free CPU and memory raised by
\* the victims' requests pass canScheduleMulti for the same demand and alpha.
C5_VictimsFlipAdmission ==
    (pc = "preempted" /\ result = "true")
        => canScheduleMulti(podReq, Raised(cluster, stats, Range(requested)), alpha)

(***************************************************************************)
(* SpecCache: the node-stats cache of the plugin (src/unnamed/part_002,    *)
(* part_003, score.go) and of the extender (extender.go) under the         *)
(* goroutines that use it: the periodic updater, a Filter call and a Score *)
(* (Prioritize) call.  A NodeStats value is copied into and out of the map *)
(* in two steps, its first six fields and its last six.                    *)
(***************************************************************************)
\* A mutex whose Lock() never waits.
canLockAlways(m) == TRUE

\* Lock() returns when no goroutine holds the mutex.
canLock(m) == m.writer = "none" /\ m.readers = {}

\* RLock() returns when no goroutine holds the mutex for writing (a waiting
\* writer may delay it further, which takes behaviours away and adds none).
canRLock(m) == m.writer = "none"

\* The fields the first step of a copy moves.
FirstFields ==
    {"CPUTotal", "CPUFree", "MemTotal", "MemFree", "DiskReadTotal",
     "DiskReadFree"}

\* dst with the fields F taken from src.
copyFields(dst, src, F) ==
    [k \in DOMAIN dst |-> IF k \in F THEN src[k] ELSE dst[k]]

\* p.nodeStats[nodeName] = stats, first step: the slot of the key, made if
\* the map does not hold it, receives the first fields.
storeFirst(m, n, v) ==
    [m EXCEPT ![n] = [present |-> TRUE,
                      value |-> copyFields(m[n].value, v, FirstFields)]]

\* p.nodeStats[nodeName] = stats, second step.
storeRest(m, n, v) ==
    [m EXCEPT ![n] = [present |-> TRUE,
                      value |-> copyFields(m[n].value, v,
                                           DOMAIN v \ FirstFields)]]

\* The sequences over the nodes that name no node twice.
NodeOrders ==
    {q \in UNION {[1..k -> Nodes] : k \in 0..Cardinality(Nodes)} :
        \A i, j \in DOMAIN q : i # j => q[i] # q[j]}

\* The answers of the metrics source while the cache is in use: no sample
\* for any query, or a sample for each under the node's own key.
CacheResponses(i) ==
    CASE i = "plugin" ->
             {[cpuCount |-> Empty, cpuUsageRatio |-> Empty, memTotal |-> Empty,
               memAvailable |-> Empty, diskRead |-> Empty, diskWrite |-> Empty,
               netUp |-> Empty, netDown |-> Empty],
              [cpuCount |-> Own(4000), cpuUsageRatio |-> Own(500),
               memTotal |-> Own(80), memAvailable |-> Own(40),
               diskRead |-> Own(40), diskWrite |-> Own(40),
               netUp |-> Own(40), netDown |-> Own(40)]}
      [] i = "extender" ->
             {[cpuUsage |-> Empty, memTotal |-> Empty, memFree |-> Empty,
               diskRead |-> Empty, diskWrite |-> Empty, netUp |-> Empty,
               netDown |-> Empty],
              [cpuUsage |-> Own(3000), memTotal |-> Own(160),
               memFree |-> Own(80), diskRead |-> Own(40),
               diskWrite |-> Own(40), netUp |-> Own(40), netDown |-> Own(40)]}

\* The demand of the pod the calls are made for.
CacheRequest ==
    [CPU |-> 1000, Mem |-> 10, DiskRead |-> 0, DiskWrite |-> 0,
     NetUp |-> 0, NetDown |-> 0, Priority |-> 1]

InitCache ==
    /\ impl \in {"plugin", "extender"}
    /\ alpha = IF impl = "plugin" THEN 50 ELSE 80
    /\ resp = <<>>
    /\ stats = ZeroStats
    /\ fetched = FALSE
    /\ IdleDecide
    /\ IdlePreempt
    /\ IdleCache
    /\ IdleGhost
    /\ IdleServe
    /\ IdleCycle

\* The goroutines that use the cache.
Goroutines == Handlers \cup {"updater"}

\* The node whose stats the goroutine g has fetched and not yet stored,
\* "none" when it holds none: from the return of getNodeStats to the store.
Holds(g) ==
    IF g = "updater"
    THEN IF updater.pc = "w1" \/ (impl = "extender" /\ updater.pc = "lock")
         THEN Head(updater.todo) ELSE "none"
    ELSE IF handler[g].pc \in {"lock", "w1"} THEN handler[g].node ELSE "none"

\* g's fetch for the node n has returned: the stats the other goroutines
\* hold for n were fetched earlier.
earlierAfterFetch(g, n) ==
    earlier \cup {<<o, g>> : o \in {x \in Goroutines \ {g} : Holds(x) = n}}

\* g stores what it holds: a goroutine that holds stats of the same node
\* holds stale ones from now on if it fetched them before g did, and fresh
\* ones otherwise; g stays marked while it stores if what it stores is
\* stale.
staleAfterStore(g) ==
    (stale \ {o \in Goroutines \ {g} : Holds(o) = Holds(g)})
        \cup {o \in Goroutines \ {g} : <<o, g>> \in earlier}

earlierAfterStore(g) == {e \in earlier : e[1] # g /\ e[2] # g}

\* updateAllNodeStats starts: the plugin lists the nodes of the snapshot,
\* the extender takes the instances of a CPU query, in the order the map of
\* the answer is ranged over; either returns when its call fails.
UpdateStart ==
    /\ updater.pc = "idle"
    /\ \E ok \in BOOLEAN :
       \E q \in NodeOrders :
          /\ impl = "plugin" => Len(q) = Cardinality(Nodes)
          /\ updater' =
                IF ~ok \/ (impl = "extender" /\ q = <<>>) THEN IdleUpdater
                ELSE [pc |-> IF impl = "plugin" THEN "lock" ELSE "fetch",
                      todo |-> q, val |-> ZeroStats]
    /\ UNCHANGED <<varsGhost, varsServe, varsCycle, varsStats, varsDecide, varsPreempt, mu, nodeStats, handler,
                   stored>>

\* stats, err := getNodeStats(nodeName), for the node next in turn.
UpdateFetch ==
    /\ updater.pc = "fetch"
    /\ \E r \in CacheResponses(impl) :
          updater' = [updater EXCEPT !.val = FetchOf(impl, r),
                         !.pc = IF impl = "plugin" THEN "w1" ELSE "lock"]
    /\ earlier' = earlierAfterFetch("updater", Head(updater.todo))
    /\ stale' = stale \ {"updater"}
    /\ UNCHANGED <<varsServe, varsCycle, varsStats, varsDecide, varsPreempt, mu, nodeStats, handler,
                   stored>>

\* mu.Lock(): the plugin locks before the loop, the extender for each store.
UpdateLock ==
    /\ updater.pc = "lock"
    /\ canLock(mu)
    /\ mu' = [mu EXCEPT !.writer = "updater"]
    /\ updater' = [updater EXCEPT
                      !.pc = IF impl = "plugin" THEN "fetch" ELSE "w1"]
    /\ UNCHANGED <<varsGhost, varsServe, varsCycle, varsStats, varsDecide, varsPreempt, nodeStats, handler,
                   stored>>

\* nodeStats[nodeName] = stats, first step.
UpdateStoreFirst ==
    /\ updater.pc = "w1"
    /\ nodeStats' = storeFirst(nodeStats, Head(updater.todo), updater.val)
    /\ stored' = [stored EXCEPT ![Head(updater.todo)] = @ \cup {updater.val}]
    /\ updater' = [updater EXCEPT !.pc = "w2"]
    /\ stale' = staleAfterStore("updater")
    /\ earlier' = earlierAfterStore("updater")
    /\ UNCHANGED <<varsServe, varsCycle, varsStats, varsDecide, varsPreempt, mu, handler>>

\* nodeStats[nodeName] = stats, second step; the plugin goes on to the next
\* node with the mutex held, the extender unlocks.
UpdateStoreRest ==
    /\ updater.pc = "w2"
    /\ nodeStats' = storeRest(nodeStats, Head(updater.todo), updater.val)
    /\ updater' =
          IF impl = "plugin"
          THEN [pc |-> IF Tail(updater.todo) = <<>> THEN "unlock" ELSE "fetch",
                todo |-> Tail(updater.todo), val |-> ZeroStats]
          ELSE [updater EXCEPT !.pc = "unlock", !.val = ZeroStats]
    /\ stale' = stale \ {"updater"}
    /\ UNCHANGED earlier
    /\ UNCHANGED <<varsServe, varsCycle, varsStats, varsDecide, varsPreempt, mu, handler, stored>>

\* mu.Unlock(): the plugin on return, the extender after each store.
UpdateUnlock ==
    /\ updater.pc = "unlock"
    /\ mu' = [mu EXCEPT !.writer = "none"]
    /\ updater' =
          IF impl = "plugin" \/ Tail(updater.todo) = <<>> THEN IdleUpdater
          ELSE [pc |-> "fetch", todo |-> Tail(updater.todo), val |-> ZeroStats]
    /\ UNCHANGED <<varsGhost, varsServe, varsCycle, varsStats, varsDecide, varsPreempt, nodeStats, handler,
                   stored>>

\* A call arrives for a node: Filter or Score of the plugin, Filter or
\* Prioritize of the extender at one node of its list.
Call(h) ==
    /\ handler[h].pc = "idle"
    /\ \E n \in Nodes :
          handler' = [handler EXCEPT ![h] = [IdleHandler EXCEPT !.pc = "rlock",
                                                                !.node = n]]
    /\ UNCHANGED <<varsGhost, varsServe, varsCycle, varsStats, varsDecide, varsPreempt, mu, nodeStats, updater,
                   stored>>

\* getNodeStatsFromCache: mu.RLock()
ReadLock(h) ==
    /\ handler[h].pc = "rlock"
    /\ canRLock(mu)
    /\ mu' = [mu EXCEPT !.readers = @ \cup {h}]
    /\ handler' = [handler EXCEPT ![h].pc = "r1"]
    /\ UNCHANGED <<varsGhost, varsServe, varsCycle, varsStats, varsDecide, varsPreempt, nodeStats, updater,
                   stored>>

\* stats, ok := nodeStats[nodeName]: the lookup, and the first step of the
\* copy when the map holds the key.
ReadFirst(h) ==
    /\ handler[h].pc = "r1"
    /\ handler' =
          IF nodeStats[handler[h].node].present
          THEN [handler EXCEPT
                   ![h].got = copyFields(@, nodeStats[handler[h].node].value,
                                         FirstFields),
                   ![h].pc = "r2"]
          ELSE [handler EXCEPT ![h].miss = TRUE, ![h].pc = "runlock"]
    /\ UNCHANGED <<varsGhost, varsServe, varsCycle, varsStats, varsDecide, varsPreempt, mu, nodeStats, updater,
                   stored>>

\* The second step of the copy.
ReadRest(h) ==
    /\ handler[h].pc = "r2"
    /\ handler' =
          [handler EXCEPT
              ![h].got = copyFields(@, nodeStats[handler[h].node].value,
                                    DOMAIN @ \ FirstFields),
              ![h].pc = "runlock"]
    /\ UNCHANGED <<varsGhost, varsServe, varsCycle, varsStats, varsDecide, varsPreempt, mu, nodeStats, updater,
                   stored>>

\* mu.RUnlock(), and the return of getNodeStatsFromCache.
ReadUnlock(h) ==
    /\ handler[h].pc = "runlock"
    /\ mu' = [mu EXCEPT !.readers = @ \ {h}]
    /\ handler' = [handler EXCEPT
                      ![h].pc = IF handler[h].miss THEN "miss" ELSE "decide"]
    /\ UNCHANGED <<varsGhost, varsServe, varsCycle, varsStats, varsDecide, varsPreempt, nodeStats, updater,
                   stored>>

\* The plugin on a miss: nodeStats, err = p.getNodeStats(nodeName).
RefreshNode(h) ==
    /\ impl = "plugin"
    /\ handler[h].pc = "miss"
    /\ \E r \in CacheResponses(impl) :
          handler' = [handler EXCEPT ![h].val = FetchOf(impl, r),
                                     ![h].got = FetchOf(impl, r),
                                     ![h].pc = "lock"]
    /\ earlier' = earlierAfterFetch(h, handler[h].node)
    /\ stale' = stale \ {h}
    /\ UNCHANGED <<varsServe, varsCycle, varsStats, varsDecide, varsPreempt, mu, nodeStats, updater,
                   stored>>

\* p.mu.Lock()
StoreLock(h) ==
    /\ handler[h].pc = "lock"
    /\ canLock(mu)
    /\ mu' = [mu EXCEPT !.writer = h]
    /\ handler' = [handler EXCEPT ![h].pc = "w1"]
    /\ UNCHANGED <<varsGhost, varsServe, varsCycle, varsStats, varsDecide, varsPreempt, nodeStats, updater,
                   stored>>

\* p.nodeStats[nodeName] = nodeStats, first step.
StoreFirst(h) ==
    /\ handler[h].pc = "w1"
    /\ nodeStats' = storeFirst(nodeStats, handler[h].node, handler[h].val)
    /\ stored' = [stored EXCEPT ![handler[h].node] = @ \cup {handler[h].val}]
    /\ handler' = [handler EXCEPT ![h].pc = "w2"]
    /\ stale' = staleAfterStore(h)
    /\ earlier' = earlierAfterStore(h)
    /\ UNCHANGED <<varsServe, varsCycle, varsStats, varsDecide, varsPreempt, mu, updater>>

\* p.nodeStats[nodeName] = nodeStats, second step.
StoreRest(h) ==
    /\ handler[h].pc = "w2"
    /\ nodeStats' = storeRest(nodeStats, handler[h].node, handler[h].val)
    /\ handler' = [handler EXCEPT ![h].pc = "unlock", ![h].val = ZeroStats]
    /\ stale' = stale \ {h}
    /\ UNCHANGED earlier
    /\ UNCHANGED <<varsServe, varsCycle, varsStats, varsDecide, varsPreempt, mu, updater, stored>>

\* p.mu.Unlock()
StoreUnlock(h) ==
    /\ handler[h].pc = "unlock"
    /\ mu' = [mu EXCEPT !.writer = "none"]
    /\ handler' = [handler EXCEPT ![h].pc = "decide"]
    /\ UNCHANGED <<varsGhost, varsServe, varsCycle, varsStats, varsDecide, varsPreempt, nodeStats, updater,
                   stored>>

\* The extender on a miss: Filter puts the node among the failed ones with
\* "error retrieving stats", Prioritize gives it the score 0.
NoStats(h) ==
    /\ impl = "extender"
    /\ handler[h].pc = "miss"
    /\ handler' = [handler EXCEPT ![h].out = "nostats", ![h].score = 0,
                                  ![h].pc = "done"]
    /\ UNCHANGED <<varsGhost, varsServe, varsCycle, varsStats, varsDecide, varsPreempt, mu, nodeStats, updater,
                   stored>>

\* The decision on the stats at hand: the admission predicate in Filter,
\* the scoring policy in Score and Prioritize.
Decide(h) ==
    /\ handler[h].pc = "decide"
    /\ IF h = "Filter"
       THEN handler' =
               [handler EXCEPT
                   ![h].out = IF AdmitOf(impl, CacheRequest, handler[h].got, alpha)
                              THEN "fits" ELSE "nofit",
                   ![h].pc = "done"]
       ELSE \E x \in ScoresOf(impl, CacheRequest, handler[h].got, alpha, MaxScore) :
               handler' = [handler EXCEPT ![h].out = "scored", ![h].score = x,
                                          ![h].pc = "done"]
    /\ UNCHANGED <<varsGhost, varsServe, varsCycle, varsStats, varsDecide, varsPreempt, mu, nodeStats, updater,
                   stored>>

\* The call returns.
Return(h) ==
    /\ handler[h].pc = "done"
    /\ handler' = [handler EXCEPT ![h] = IdleHandler]
    /\ UNCHANGED <<varsGhost, varsServe, varsCycle, varsStats, varsDecide, varsPreempt, mu, nodeStats, updater,
                   stored>>

NextCache ==
    \/ UpdateStart
    \/ UpdateFetch
    \/ UpdateLock
    \/ UpdateStoreFirst
    \/ UpdateStoreRest
    \/ UpdateUnlock
    \/ \E h \in Handlers :
          \/ Call(h)
          \/ ReadLock(h)
          \/ ReadFirst(h)
          \/ ReadRest(h)
          \/ ReadUnlock(h)
          \/ RefreshNode(h)
          \/ StoreLock(h)
          \/ StoreFirst(h)
          \/ StoreRest(h)
          \/ StoreUnlock(h)
          \/ NoStats(h)
          \/ Decide(h)
          \/ Return(h)

SpecCache == InitCache /\ [][NextCache]_vars

\* A goroutine is between the steps of a store into the map.
Writing(p) ==
    IF p = "updater" THEN updater.pc \in {"w1", "w2"}
    ELSE handler[p].pc \in {"w1", "w2"}

\* A handler is between the steps of a read of the map.
Reading(h) == handler[h].pc \in {"r1", "r2"}

\* C8: a call that found no entry for its node in the cache has, when it
\* returns, fetched the node's stats and stored them in the cache, and has
\* not turned the node down for missing stats (no fetch fails).
C8_MissFetchesAndStores ==
    \A h \in Handlers :
        (handler[h].pc = "done" /\ handler[h].miss)
            => /\ handler[h].out # "nostats"
               /\ handler[h].got \in stored[handler[h].node]

\* C9: at most one goroutine writes the map at a time, no read of the map
\* overlaps a write, and what a read returns is one value some store wrote
\* for the node, whole.
C9_OneWriterWholeReads ==
    /\ Cardinality({p \in Handlers \cup {"updater"} : Writing(p)}) <= 1
    /\ \A h \in Handlers :
          /\ Reading(h) => \A p \in Handlers \cup {"updater"} : ~Writing(p)
          /\ (handler[h].pc \in {"decide", "done"} /\ ~handler[h].miss)
                => handler[h].got \in stored[handler[h].node]

\* C9 happens: a call has read a node's entry after two different values
\* were stored for the node, while the updater waits for the mutex that
\* the other call holds for reading.
C9_Witness ==
    /\ \E h \in Handlers :
          /\ handler[h].pc = "decide"
          /\ ~handler[h].miss
          /\ Cardinality(stored[handler[h].node]) = 2
    /\ \E h \in Handlers : Reading(h)
    /\ updater.pc = "lock"

(***************************************************************************)
(* The dominant-share policy and the admission predicates, claim by claim. *)
(***************************************************************************)
\* The front ends whose scoring policy is the dominant share.
DominantShareImpls == {"extender", "preemptive"}

\* The pod asks for nothing in any of the six dimensions.
AllZero(p) == \A d \in DimSet : Req(p, d) = 0

\* C11: under the dominant-share policy the score of a demand whose six
\* components are all zero is maxScore, whatever the node stats are.
C11_ZeroDemandScoresMax ==
    (op = "Score" /\ impl \in DominantShareImpls /\ AllZero(podReq))
        => score = MaxScore

\* The amounts by which a demand component is raised.
Raises == {10, 2000}

\* The demand p with its component of dimension d raised by k.
Raise(p, d, k) ==
    CASE d = "cpu" -> [p EXCEPT !.CPU = @ + k]
      [] d = "mem" -> [p EXCEPT !.Mem = @ + k]
      [] d = "diskRead" -> [p EXCEPT !.DiskRead = @ + k]
      [] d = "diskWrite" -> [p EXCEPT !.DiskWrite = @ + k]
      [] d = "netUp" -> [p EXCEPT !.NetUp = @ + k]
      [] d = "netDown" -> [p EXCEPT !.NetDown = @ + k]

\* C12: under the dominant-share policy, for the node stats at hand, a
\* demand that differs from the scored one by a raise of one nonzero
\* component gets a score that is not higher.
C12_RaisedDemandScoresNoHigher ==
    (op = "Score" /\ impl \in DominantShareImpls)
        => \A d \in DimSet, k \in Raises :
              Req(podReq, d) # 0
                 => \A x \in ScoresOf(impl, Raise(podReq, d, k), stats, alpha,
                                      MaxScore) : x <= score

\* C12 happens: the raise of the dominant component lowers the score, and
\* the raise of another component leaves it as it is.
C12_Witness ==
    /\ op = "Score"
    /\ impl \in DominantShareImpls
    /\ score > 0
    /\ \E d \in DimSet, k \in Raises :
          /\ Req(podReq, d) # 0
          /\ \A x \in ScoresOf(impl, Raise(podReq, d, k), stats, alpha, MaxScore) :
                0 < x /\ x < score
    /\ \E d \in DimSet, k \in Raises :
          /\ Req(podReq, d) # 0
          /\ \A x \in ScoresOf(impl, Raise(podReq, d, k), stats, alpha, MaxScore) :
                x = score

(***************************************************************************)
(* The weighted-usage policy, claim by claim.                              *)
(***************************************************************************)
\* The usage of dimension d after the pod is placed, as
\* Plugin.scoreMultiResource computes and cuts it.
UsageOf(p, ns, d) ==
    usageAfter(Total(ns, d), Free(ns, d), Req(p, d), d \notin {"cpu", "mem"})

\* The weight of dimension d, in fortieths.
WeightOf(d) ==
    CASE d = "cpu" -> 16
      [] d = "mem" -> 12
      [] OTHER -> 3

\* The per-dimension score of usage u is at most that of usage v (the two
\* numerators brought over the common denominator u.den * v.den * 4000).
ScoreAtMost(u, v, w, a) ==
    resourceToScore(u, w, a) * v.den <= resourceToScore(v, w, a) * u.den

\* C13: with alpha < 0.5 the per-dimension score resourceToScore returns
\* does not increase when the usage of the dimension increases, and with
\* alpha >= 0.5 it does not decrease.
C13_AlphaBias ==
    (op = "Score" /\ impl = "plugin")
        => \A d \in DimSet, k \in Raises :
              LET u == UsageOf(podReq, stats, d)
                  v == UsageOf(Raise(podReq, d, k), stats, d)
              IN  (~u.nan /\ ~v.nan)
                     => IF alpha < 50
                        THEN ScoreAtMost(v, u, WeightOf(d), alpha)
                        ELSE ScoreAtMost(u, v, WeightOf(d), alpha)

(***************************************************************************)
(* The admission predicates, claim by claim.                               *)
(***************************************************************************)
\* The projected utilization 1 - (free - demand) / total of dimension d is
\* defined and at most alpha (in percent).
ProjectedWithin(p, s, d, a) ==
    /\ Total(s, d) > 0
    /\ (Total(s, d) - (Free(s, d) - Req(p, d))) * 100 <= a * Total(s, d)

\* Dimension d passes the hard check: free >= demand.
HardCheck(p, s, d) == Free(s, d) >= Req(p, d)

\* C16: the preemptive canScheduleMulti returns true exactly when every
\* dimension with nonzero demand has free >= demand and a projected
\* utilization of at most alpha.
C16_AdmitsIffWithinCeiling ==
    (op = "Filter" /\ impl = "preemptive")
        => (admitted <=>
               \A d \in DimSet :
                   Req(podReq, d) # 0
                      => /\ HardCheck(podReq, stats, d)
                         /\ ProjectedWithin(podReq, stats, d, alpha))

\* C16 happens: every dimension the pod asks for passes the hard check, one
\* of them exceeds the ceiling, and the pod is rejected.
C16_Witness ==
    /\ op = "Filter"
    /\ impl = "preemptive"
    /\ ~AllZero(podReq)
    /\ \A d \in DimSet : HardCheck(podReq, stats, d)
    /\ \E d \in DimSet :
          Req(podReq, d) # 0 /\ ~ProjectedWithin(podReq, stats, d, alpha)
    /\ ~admitted

\* The node stats s with ample room in dimension d.
Ample(s, d) ==
    CASE d = "cpu" -> [s EXCEPT !.CPUTotal = 100000, !.CPUFree = 100000]
      [] d = "mem" -> [s EXCEPT !.MemTotal = 100000, !.MemFree = 100000]
      [] d = "diskRead" ->
             [s EXCEPT !.DiskReadTotal = 100000, !.DiskReadFree = 100000]
      [] d = "diskWrite" ->
             [s EXCEPT !.DiskWriteTotal = 100000, !.DiskWriteFree = 100000]
      [] d = "netUp" -> [s EXCEPT !.NetUpTotal = 100000, !.NetUpFree = 100000]
      [] d = "netDown" ->
             [s EXCEPT !.NetDownTotal = 100000, !.NetDownFree = 100000]

RaiseFree(s, d, k) ==
    CASE d = "cpu" -> [s EXCEPT !.CPUFree = @ + k]
      [] d = "mem" -> [s EXCEPT !.MemFree = @ + k]
      [] d = "diskRead" -> [s EXCEPT !.DiskReadFree = @ + k]
      [] d = "diskWrite" -> [s EXCEPT !.DiskWriteFree = @ + k]
      [] d = "netUp" -> [s EXCEPT !.NetUpFree = @ + k]
      [] d = "netDown" -> [s EXCEPT !.NetDownFree = @ + k]

\* C18: a pod admitted on the node stats at hand is admitted on the node
\* stats that differ from them by a raise of the free value of one
\* dimension.
C18_MonotonicAdmission ==
    (op = "Filter" /\ admitted)
        => \A d \in DimSet, k \in Raises :
              AdmitOf(impl, podReq, RaiseFree(stats, d, k), alpha)

\* C18 happens: a pod that asks for resources is admitted under a ceiling
\* below 1, and stays admitted after each raise.
C18_Witness ==
    /\ op = "Filter"
    /\ admitted
    /\ impl = "preemptive"
    /\ alpha < 100
    /\ \E d \in DimSet :
          /\ Req(podReq, d) # 0
          /\ \A k \in Raises :
                AdmitOf(impl, podReq, RaiseFree(stats, d, k), alpha)

(***************************************************************************)
(* SpecNormalize: Plugin.NormalizeScore (score.go) on the scores that      *)
(* Plugin.Score returned for the nodes of one pod.  The int64 of the       *)
(* source is an integer of IntBits bits here: sums, differences and        *)
(* products wrap around, quotients truncate toward zero.                   *)
(***************************************************************************)
\* The greatest number of nodes of the cluster.
MaxNodes == 3

\* The width of an integer.
IntBits == 16

\* The least integer of that width.
LeastInt == -(2 ^ (IntBits - 1))

\* The value of x in two's complement of that width.
Wrap(x) == ((x - LeastInt) % (2 ^ IntBits)) + LeastInt

\* a / b of Go: the quotient truncated toward zero.
Quo(a, b) ==
    IF (a < 0) # (b < 0) THEN Wrap(-(Abs(a) \div Abs(b)))
    ELSE Wrap(Abs(a) \div Abs(b))

\* What Plugin.Score returns for a node: scores within 0..maxScore, and for
\* node stats whose usage is NaN the int of a NaN, cut at maxScore: the
\* least integer, 0, or maxScore.
PluginScores == {LeastInt, 0, 20, 50, 60, MaxScore}

\* The greatest and the least member of a set of integers.
MaxOf(S) == CHOOSE x \in S : \A y \in S : y <= x

MinOf(S) == CHOOSE x \in S : \A y \in S : x <= y

\* `highest` starts at 0 and `lowest` at maxScore; the loop over the scores
\* raises the one and lowers the other.
Highest(list) == MaxOf({0} \cup Range(list))

Lowest(list, maxScore) == MinOf({maxScore} \cup Range(list))

\* Plugin.NormalizeScore.  Within the second loop highest != lowest holds,
\* so its else branch is never taken.
NormalizeScore(list, maxScore) ==
    LET highest == Highest(list)
        lowest == Lowest(list, maxScore)
    IN  IF highest = lowest THEN list
        ELSE [i \in DOMAIN list |->
                 Quo(Wrap(Wrap(list[i] - lowest) * maxScore),
                     Wrap(highest - lowest))]

InitNormalize ==
    /\ impl = "plugin"
    /\ resp = <<>>
    /\ stats = ZeroStats
    /\ fetched = FALSE
    /\ alpha = 50
    /\ IdleDecide
    /\ IdlePreempt
    /\ IdleCache
    /\ IdleGhost
    /\ IdleServe
    /\ podSpec = NoPod
    /\ extracted = ZeroRequest
    /\ scores = <<>>
    /\ normalized = <<>>
    /\ nodeItems = <<>>
    /\ foundNode = 0
    /\ step = "score"

\* The framework calls Plugin.Score for the next node of the pod and keeps
\* the score.
ScoreNode ==
    /\ step = "score"
    /\ Len(scores) < MaxNodes
    /\ \E x \in PluginScores : scores' = Append(scores, x)
    /\ UNCHANGED <<varsGhost, varsServe, varsStats, varsDecide, varsPreempt, varsCache, podSpec,
                   extracted, normalized, nodeItems, foundNode, step>>

\* The framework calls Plugin.NormalizeScore with the scores of the nodes.
Normalize ==
    /\ step = "score"
    /\ Len(scores) >= 1
    /\ normalized' = NormalizeScore(scores, MaxScore)
    /\ step' = "normalized"
    /\ UNCHANGED <<varsGhost, varsServe, varsStats, varsDecide, varsPreempt, varsCache, podSpec,
                   extracted, scores, nodeItems, foundNode>>

\* The next pod is up.
NextScoring ==
    /\ step = "normalized"
    /\ scores' = <<>>
    /\ normalized' = <<>>
    /\ step' = "score"
    /\ UNCHANGED <<varsGhost, varsServe, varsStats, varsDecide, varsPreempt, varsCache, podSpec,
                   extracted, nodeItems, foundNode>>

NextNormalize ==
    \/ ScoreNode
    \/ Normalize
    \/ NextScoring

SpecNormalize == InitNormalize /\ [][NextNormalize]_vars

\* The scores of the list are all equal.
AllEqual(list) == \A i, j \in DOMAIN list : list[i] = list[j]

\* C14: NormalizeScore rewrites the scores of a list that are not all equal
\* to (score - min) * maxScore / (max - min), min and max being the least
\* and the greatest score of the list: the lowest becomes 0, the highest
\* maxScore, every result lies in 0..maxScore and the order of the scores
\* is kept.
C14_RescalesByObservedMinMax ==
    (step = "normalized" /\ ~AllEqual(scores))
        => LET min == MinOf(Range(scores))
               max == MaxOf(Range(scores))
           IN  /\ \A i \in DOMAIN scores :
                     /\ normalized[i] =
                           ((scores[i] - min) * MaxScore) \div (max - min)
                     /\ 0 <= normalized[i] /\ normalized[i] <= MaxScore
                     /\ scores[i] = min => normalized[i] = 0
                     /\ scores[i] = max => normalized[i] = MaxScore
               /\ \A i, j \in DOMAIN scores :
                     scores[i] < scores[j] => normalized[i] < normalized[j]

\* C15: NormalizeScore leaves the scores of a list unchanged when they are
\* all equal, whatever their common value is.
C15_EqualScoresUnchanged ==
    (step = "normalized" /\ AllEqual(scores)) => normalized = scores

(***************************************************************************)
(* SpecBind: watchForUnscheduledPods of the preemptive scheduler           *)
(* (src/unnamed/part_009) for one pending pod: findNodeForPod walks the    *)
(* nodes of the cluster, bindPodToNode binds the pod to the node found.    *)
(* No pod runs on the nodes, so an attempt at preemption finds no          *)
(* candidate.  A node is a record [ready, unschedulable, resp], resp being *)
(* what the metrics source answers for it.                                 *)
(***************************************************************************)
\* The answers of the metrics source for a node: 5, 3 or 1 of 6 cores free.
BindResponses ==
    [cpuUsage : {Own(1000), Own(3000), Own(5000)},
     memUsed : {Own(20)},
     memTotal : {Err},
     diskReadUsage : {Err}, diskReadTotal : {Err},
     diskWriteUsage : {Err}, diskWriteTotal : {Err},
     netUpUsage : {Err}, netDownUsage : {Err}, netSpeed : {Err}]

\* The nodes the list call can return.
NodeItems == [ready : BOOLEAN, unschedulable : BOOLEAN, resp : BindResponses]

\* The node lists of the cluster.
NodeLists ==
    UNION {[1..n -> NodeItems] : n \in 1..MaxNodes}

\* The demands extractPodRequirements returns: CPU and memory only.
BindRequests ==
    [CPU : {1000, 2000}, Mem : {0, 20}, DiskRead : {0}, DiskWrite : {0},
     NetUp : {0}, NetDown : {0}, Priority : {0}]

\* The body of the loop of findNodeForPod for one node: whether the loop
\* returns the node.
takesNode(node, pod, a, preempt) ==
    LET st == getNodeStats(node.resp)
        attempt == attemptPreemptionMulti([err |-> FALSE, pods |-> {}],
                                          pod, st, <<>>, 0)
    IN  /\ ~(~node.ready \/ node.unschedulable)
        /\ \/ canScheduleMulti(pod, st, a)
           \/ /\ preempt
              /\ attempt.result
              /\ canScheduleMulti(pod, getNodeStats(node.resp), a)

\* findNodeForPod: the first node of the list the loop returns, 0 ("") when
\* it returns none.
findNodeForPod(items, pod, a, preempt) ==
    LET taken == {i \in DOMAIN items : takesNode(items[i], pod, a, preempt)}
    IN  IF taken = {} THEN 0
        ELSE CHOOSE i \in taken : \A j \in taken : i <= j

InitBind ==
    /\ impl = "preemptive"
    /\ resp = <<>>
    /\ stats = ZeroStats
    /\ fetched = FALSE
    /\ alpha \in {80, 100}
    /\ podReq \in BindRequests
    /\ op = "none"
    /\ admitted = FALSE
    /\ score = 0
    /\ IdlePreempt
    /\ IdleCache
    /\ IdleGhost
    /\ IdleServe
    /\ podSpec = NoPod
    /\ extracted = ZeroRequest
    /\ scores = <<>>
    /\ normalized = <<>>
    /\ nodeItems \in NodeLists
    /\ foundNode = 0
    /\ step = "find"

\* nodeName, err := findNodeForPod(client, podReq, alpha, enablePreemption),
\* with the answer of the node list call as its input.
FindNode ==
    /\ step = "find"
    /\ \E listErr \in BOOLEAN :
          LET name == findNodeForPod(nodeItems, podReq, alpha, enablePreemption)
          IN  /\ foundNode' = IF listErr THEN 0 ELSE name
              /\ step' = IF listErr THEN "error"
                         ELSE IF name = 0 THEN "nonode" ELSE "found"
    /\ UNCHANGED <<varsGhost, varsServe, varsStats, varsDecide, varsPreempt, varsCache, podSpec,
                   extracted, scores, normalized, nodeItems>>

\* err = bindPodToNode(client, &pod, nodeName), with the answer of the
\* bind call as its input.
BindPod ==
    /\ step = "found"
    /\ \E bindErr \in BOOLEAN :
          step' = IF bindErr THEN "binderror" ELSE "bound"
    /\ UNCHANGED <<varsGhost, varsServe, varsStats, varsDecide, varsPreempt, varsCache, podSpec,
                   extracted, scores, normalized, nodeItems, foundNode>>

\* The loop goes on to the next unscheduled pod.
NextPending ==
    /\ step \in {"error", "nonode", "binderror", "bound"}
    /\ podReq' \in BindRequests
    /\ foundNode' = 0
    /\ step' = "find"
    /\ UNCHANGED <<varsGhost, varsServe, varsStats, alpha, op, admitted, score, varsPreempt,
                   varsCache, podSpec, extracted, scores, normalized,
                   nodeItems>>

NextBind ==
    \/ FindNode
    \/ BindPod
    \/ NextPending

SpecBind == InitBind /\ [][NextBind]_vars

\* The nodes that are ready, schedulable and pass admission for the pod.
Eligible(items, pod, a) ==
    {i \in DOMAIN items :
        /\ items[i].ready
        /\ ~items[i].unschedulable
        /\ canScheduleMulti(pod, getNodeStats(items[i].resp), a)}

\* C19: the node findNodeForPod returns for a pending pod is, among the
\* ready, schedulable nodes that pass admission for the pod, one of the
\* highest score.
C19_BindsBestNode ==
    step = "found"
        => /\ foundNode \in Eligible(nodeItems, podReq, alpha)
           /\ \A j \in Eligible(nodeItems, podReq, alpha) :
                 scoreMultiResource(podReq, getNodeStats(nodeItems[j].resp),
                                    MaxScore)
                    <= scoreMultiResource(podReq,
                                          getNodeStats(nodeItems[foundNode].resp),
                                          MaxScore)

(***************************************************************************)
(* SpecExtract: ExtractPodRequirements of the extender (extender.go).  A   *)
(* pod is a record [image, cpu, mem, annotations]: the image of its        *)
(* container, the CPU and memory its container requests, and its           *)
(* annotations, a function from keys to values.  An annotation value is a  *)
(* record [num, unit]: the text of the number num followed by unit; the    *)
(* unit "junk" stands for a text without a number.  Disk and network       *)
(* demands are in bytes per second here.                                   *)
(***************************************************************************)
KiB == 1024

MiB == 1024 * 1024

GiB == 1024 * 1024 * 1024

\* The annotation keys of the four I/O dimensions.
AnnotationKeys ==
    {"scheduler.extender/disk-read", "scheduler.extender/disk-write",
     "scheduler.extender/net-up", "scheduler.extender/net-down"}

\* +Inf of float64: the greatest integer.  strconv.ParseFloat accepts the
\* texts "Inf", "+Inf" and "Infinity" (and "NaN") without an error.
Inf == 2147483647

\* The annotation values: "1048576", "30M", "1g", "5X", "fast", "Inf".
AnnotationValues ==
    {[num |-> MiB, unit |-> ""], [num |-> 30, unit |-> "M"],
     [num |-> 1, unit |-> "g"], [num |-> 5, unit |-> "X"],
     [num |-> 0, unit |-> "junk"], [num |-> Inf, unit |-> ""]}

\* strings.ToUpper of a unit.
ToUpper(u) ==
    CASE u = "k" -> "K"
      [] u = "m" -> "M"
      [] u = "g" -> "G"
      [] OTHER -> u

\* strconv.ParseFloat(value, 64) succeeds: the value is a number.
IsNumber(v) == v.unit = ""

\* The value parses as a number followed by K, M or G.
HasUnit(v) == ToUpper(v.unit) \in {"K", "M", "G"}

\* parseResourceAnnotation
parseResourceAnnotation(p, key, defaultValue) ==
    IF key \notin DOMAIN p.annotations THEN defaultValue
    ELSE LET value == p.annotations[key]
         IN  IF IsNumber(value) THEN value.num
             ELSE CASE ToUpper(value.unit) = "K" -> value.num * KiB
                    [] ToUpper(value.unit) = "M" -> value.num * MiB
                    [] ToUpper(value.unit) = "G" -> value.num * GiB
                    [] OTHER -> defaultValue

\* max(x, y) of Go
max(x, y) == IF x > y THEN x ELSE y

\* strings.Contains(imageLower, ..) for the database and the web server
\* patterns.
IsDatabase(image) == image \in {"mysql", "postgres", "mongo", "redis"}

IsWebServer(image) == image \in {"nginx", "apache", "node", "tomcat"}

\* estimateIORequirements: the defaults, the annotations, the image
\* patterns, the CPU tiers (4+ and 2+ cores) and the memory tiers (4+ and
\* 1+ GiB, in tenths of a GiB).
estimateIORequirements(p) ==
    LET a == [diskRead |-> parseResourceAnnotation(
                               p, "scheduler.extender/disk-read", 10 * MiB),
              diskWrite |-> parseResourceAnnotation(
                                p, "scheduler.extender/disk-write", 5 * MiB),
              netUp |-> parseResourceAnnotation(
                            p, "scheduler.extender/net-up", 1 * MiB),
              netDown |-> parseResourceAnnotation(
                              p, "scheduler.extender/net-down", 2 * MiB)]
        b == IF IsDatabase(p.image)
             THEN [a EXCEPT !.diskRead = max(@, 50 * MiB),
                            !.diskWrite = max(@, 20 * MiB)]
             ELSE a
        c == IF IsWebServer(p.image)
             THEN [b EXCEPT !.netUp = max(@, 20 * MiB),
                            !.netDown = max(@, 40 * MiB)]
             ELSE b
        d == IF p.cpu >= 4000
             THEN [c EXCEPT !.diskRead = max(@, 100 * MiB),
                            !.diskWrite = max(@, 50 * MiB)]
             ELSE IF p.cpu >= 2000
             THEN [c EXCEPT !.diskRead = max(@, 50 * MiB),
                            !.diskWrite = max(@, 25 * MiB)]
             ELSE c
    IN  IF p.mem >= 40
        THEN [d EXCEPT !.netUp = max(@, 50 * MiB),
                       !.netDown = max(@, 100 * MiB)]
        ELSE IF p.mem >= 10
        THEN [d EXCEPT !.netUp = max(@, 20 * MiB),
                       !.netDown = max(@, 40 * MiB)]
        ELSE d

\* ExtractPodRequirements
ExtractPodRequirements(p) ==
    LET io == estimateIORequirements(p)
    IN  [CPU |-> p.cpu, Mem |-> p.mem, DiskRead |-> io.diskRead,
         DiskWrite |-> io.diskWrite, NetUp |-> io.netUp,
         NetDown |-> io.netDown, Priority |-> 0]

\* Plugin.extractPodRequirements (src/unnamed/part_003): the defaults of
\* the I/O demands are multiples of the CPU request, which is a whole
\* number of cores here.
Plugin_extractPodRequirements(p) ==
    LET cores == p.cpu \div 1000
    IN  [CPU |-> p.cpu, Mem |-> p.mem,
         DiskRead |-> parseResourceAnnotation(
                          p, "scheduler.extender/disk-read", cores * 10 * MiB),
         DiskWrite |-> parseResourceAnnotation(
                           p, "scheduler.extender/disk-write", cores * 5 * MiB),
         NetUp |-> parseResourceAnnotation(
                       p, "scheduler.extender/net-up", cores * 5 * MiB),
         NetDown |-> parseResourceAnnotation(
                         p, "scheduler.extender/net-down", cores * 10 * MiB),
         Priority |-> 1]

\* The requirement extraction of a front end.
ExtractOf(i, p) ==
    CASE i = "plugin" -> Plugin_extractPodRequirements(p)
      [] i = "extender" -> ExtractPodRequirements(p)

\* The pods: one container of an image, with requests of no, 2 or 4 cores
\* and of no, 1 or 4 GiB, annotations under some of the keys, and no
\* priority set.
Pods ==
    [image : {"busybox", "mysql", "nginx"},
     cpu : {0, 2000, 4000},
     mem : {0, 10, 40},
     annotations :
         UNION {[K -> AnnotationValues] : K \in SUBSET AnnotationKeys}]

InitExtract ==
    /\ impl \in {"plugin", "extender"}
    /\ resp = <<>>
    /\ stats = ZeroStats
    /\ fetched = FALSE
    /\ alpha = 80
    /\ IdleDecide
    /\ IdlePreempt
    /\ IdleCache
    /\ IdleGhost
    /\ IdleServe
    /\ podSpec \in Pods
    /\ extracted = ZeroRequest
    /\ scores = <<>>
    /\ normalized = <<>>
    /\ nodeItems = <<>>
    /\ foundNode = 0
    /\ step = "extract"

\* podReq := ExtractPodRequirements(pod), in Filter and in Prioritize of
\* the extender; podReq := p.extractPodRequirements(pod), in Filter and in
\* Score of the plugin.
Extract ==
    /\ step = "extract"
    /\ extracted' = ExtractOf(impl, podSpec)
    /\ step' = "extracted"
    /\ UNCHANGED <<varsGhost, varsServe, varsStats, varsDecide, varsPreempt, varsCache, podSpec,
                   scores, normalized, nodeItems, foundNode>>

\* The call returns; the pod comes up again in the next call.
Extracted ==
    /\ step = "extracted"
    /\ extracted' = ZeroRequest
    /\ step' = "extract"
    /\ UNCHANGED <<varsGhost, varsServe, varsStats, varsDecide, varsPreempt, varsCache, podSpec,
                   scores, normalized, nodeItems, foundNode>>

NextExtract ==
    \/ Extract
    \/ Extracted

SpecExtract == InitExtract /\ [][NextExtract]_vars

\* The value of a valid annotation: a number, or a number with the unit K,
\* M or G.
Annotated(v) ==
    IF IsNumber(v) THEN v.num
    ELSE CASE ToUpper(v.unit) = "K" -> v.num * 1024
           [] ToUpper(v.unit) = "M" -> v.num * 1024 * 1024
           [] ToUpper(v.unit) = "G" -> v.num * 1024 * 1024 * 1024

\* The demand of the dimension an annotation key is about.
DemandOf(req, key) ==
    CASE key = "scheduler.extender/disk-read" -> req.DiskRead
      [] key = "scheduler.extender/disk-write" -> req.DiskWrite
      [] key = "scheduler.extender/net-up" -> req.NetUp
      [] key = "scheduler.extender/net-down" -> req.NetDown

\* C20: the demand the extender extracts for a disk or network dimension
\* whose annotation is present and valid is the annotated value.
C20_AnnotationWins ==
    step = "extracted"
        => \A key \in DOMAIN podSpec.annotations :
              (IsNumber(podSpec.annotations[key])
                   \/ HasUnit(podSpec.annotations[key]))
                 => DemandOf(extracted, key) = Annotated(podSpec.annotations[key])

\* The default the plugin hands to parseResourceAnnotation for a key.
DefaultOf(p, key) ==
    CASE key = "scheduler.extender/disk-read" -> (p.cpu \div 1000) * 10 * MiB
      [] key = "scheduler.extender/disk-write" -> (p.cpu \div 1000) * 5 * MiB
      [] key = "scheduler.extender/net-up" -> (p.cpu \div 1000) * 5 * MiB
      [] key = "scheduler.extender/net-down" -> (p.cpu \div 1000) * 10 * MiB

\* The text of the value is a plain number.
PlainNumber(v) == v.unit = "" /\ v.num # Inf

\* C21: parseResourceAnnotation returns the number of a plain numeric
\* value, the number times 1024, 1024^2 or 1024^3 for a number followed by
\* K, M or G in either case, and the default for an absent key and for any
\* other value.
C21_ParsesNumberUnitOrDefault ==
    (step = "extracted" /\ impl = "plugin")
        => \A key \in AnnotationKeys :
              DemandOf(extracted, key) =
                 IF key \notin DOMAIN podSpec.annotations
                 THEN DefaultOf(podSpec, key)
                 ELSE LET v == podSpec.annotations[key]
                      IN  IF PlainNumber(v) THEN v.num
                          ELSE IF v.unit \in {"K", "k"} THEN v.num * 1024
                          ELSE IF v.unit \in {"M", "m"} THEN v.num * 1024 * 1024
                          ELSE IF v.unit \in {"G", "g"}
                          THEN v.num * 1024 * 1024 * 1024
                          ELSE DefaultOf(podSpec, key)

(***************************************************************************)
(* SpecServe: the HTTP server of the extender (SetupHTTPServer, part_004   *)
(* HandleExtenderRequest, extender.go Filter and Prioritize) serving one   *)
(* request at a time while the updater stores into the cache.  The body of *)
(* a request is "unreadable" (the read fails), "notjson" (Unmarshal        *)
(* fails), "nopod" or "nonodes" (JSON that leaves args.Pod or args.Nodes   *)
(* nil, {} for one), or "full"; nodes is args.Nodes.Items, by name.        *)
(***************************************************************************)
\* http.StatusOK and the other statuses the server sends.
StatusOK == 200

StatusBadRequest == 400

StatusMethodNotAllowed == 405

StatusInternalServerError == 500

\* The routes of the mux.
Paths == {"/filter", "/prioritize", "/health"}

Bodies == {"unreadable", "notjson", "nopod", "nonodes", "full"}

\* The requests a client can send.
Requests ==
    {r \in [path : Paths, method : {"GET", "POST"}, body : Bodies,
            nodes : NodeOrders] :
        /\ r.body # "full" => r.nodes = <<>>
        /\ r.path = "/health" => r.body = "full" /\ r.nodes = <<>>}

\* The demands of the pods of the requests.
ServeRequests == {CacheRequest, [CacheRequest EXCEPT !.CPU = 3000]}

\* failedNodes[name] = reason
setFailed(failed, name, reason) ==
    [n \in DOMAIN failed \cup {name} |->
        IF n = name THEN reason ELSE failed[n]]

\* A loop body that lets every node with a cache entry through.
Filter_nodeAnyEntry(loc, name, entry, pod, a) ==
    IF ~entry.present
    THEN [loc EXCEPT !.failedNodes =
                        setFailed(@, name, "error retrieving stats")]
    ELSE [loc EXCEPT !.filteredNodes = Append(@, name)]

\* The body of the loop of Filter for the node `name`, entry being what
\* getNodeStatsFromCache finds for it.
Filter_node(loc, name, entry, pod, a) ==
    IF ~entry.present
    THEN [loc EXCEPT !.failedNodes =
                        setFailed(@, name, "error retrieving stats")]
    ELSE IF ~CanScheduleMulti(pod, entry.value, a)
    THEN [loc EXCEPT !.failedNodes =
                        setFailed(@, name, "insufficient resources")]
    ELSE [loc EXCEPT !.filteredNodes = Append(@, name)]

\* The body of the loop of Prioritize for the node `name`.
Prioritize_node(loc, name, entry, pod, maxScore) ==
    [loc EXCEPT !.priorityList =
        Append(@, [Host |-> name,
                   Score |-> IF ~entry.present THEN 0
                             ELSE ScoreMultiResource(pod, entry.value,
                                                     maxScore)])]

\* HandleExtenderRequest up to the call of the handler: the status it sends
\* at once (0: none), and whether it panics on a nil args.Pod or args.Nodes
\* in its log lines, upon which net/http closes the connection.
HandleExtenderRequest(r) ==
    IF r.method # "POST"
    THEN [status |-> StatusMethodNotAllowed, panics |-> FALSE]
    ELSE IF r.body \in {"unreadable", "notjson"}
    THEN [status |-> StatusBadRequest, panics |-> FALSE]
    ELSE IF r.body \in {"nopod", "nonodes"}
    THEN [status |-> 0, panics |-> TRUE]
    ELSE [status |-> 0, panics |-> FALSE]

InitServe ==
    /\ impl = "extender"
    /\ alpha = 80
    /\ resp = <<>>
    /\ stats = ZeroStats
    /\ fetched = FALSE
    /\ IdleDecide
    /\ IdlePreempt
    /\ IdleCache
    /\ IdleGhost
    /\ IdleServe
    /\ IdleCycle

\* A request arrives at the mux.
Receive ==
    /\ serving.pc \in {"none", "done"}
    /\ request' \in Requests
    /\ podReq' \in ServeRequests
    /\ serving' = [NotServing EXCEPT !.pc = "handle"]
    /\ response' = NoResponse
    /\ UNCHANGED <<varsStats, alpha, op, admitted, score, varsPreempt,
                   varsCache, varsCycle, varsGhost, query, varsWatch>>

\* The handler of /health.
Health ==
    /\ serving.pc = "handle"
    /\ request.path = "/health"
    /\ response' = [NoResponse EXCEPT !.status = StatusOK, !.body = "OK"]
    /\ serving' = [serving EXCEPT !.pc = "done"]
    /\ UNCHANGED <<varsStats, varsDecide, varsPreempt, varsCache, varsCycle,
                   varsGhost, request, query, varsWatch>>

\* HandleExtenderRequest, from its entry to the call of the handler.
Handle ==
    /\ serving.pc = "handle"
    /\ request.path # "/health"
    /\ LET out == HandleExtenderRequest(request)
       IN  /\ response' = [NoResponse EXCEPT !.status = out.status,
                                             !.closed = out.panics]
           /\ serving' =
                 [serving EXCEPT
                     !.pc = IF out.status # 0 \/ out.panics THEN "done"
                            ELSE IF request.path = "/filter" THEN "filter"
                            ELSE "prioritize",
                     !.i = 1]
    /\ UNCHANGED <<varsStats, varsDecide, varsPreempt, varsCache, varsCycle,
                   varsGhost, request, query, varsWatch>>

\* One turn of the loop of Filter.
FilterNode ==
    /\ serving.pc = "filter"
    /\ serving.i <= Len(request.nodes)
    /\ LET name == request.nodes[serving.i]
           entry == nodeStats[name]
       IN  serving' =
              [Filter_node(serving, name, entry, podReq, alpha) EXCEPT
                  !.i = serving.i + 1,
                  !.seen = [n \in DOMAIN serving.seen \cup {name} |->
                               IF n = name THEN entry ELSE serving.seen[n]]]
    /\ UNCHANGED <<varsStats, varsDecide, varsPreempt, varsCache, varsCycle,
                   varsGhost, request, response, query, varsWatch>>

\* One turn of the loop of Prioritize.
PrioritizeNode ==
    /\ serving.pc = "prioritize"
    /\ serving.i <= Len(request.nodes)
    /\ LET name == request.nodes[serving.i]
       IN  serving' =
              [Prioritize_node(serving, name, nodeStats[name], podReq,
                               MaxScore) EXCEPT !.i = serving.i + 1]
    /\ UNCHANGED <<varsStats, varsDecide, varsPreempt, varsCache, varsCycle,
                   varsGhost, request, response, query, varsWatch>>

\* The handler has returned: json.Marshal(result), whose failure is an
\* input, and the answer.
Encode ==
    /\ serving.pc \in {"filter", "prioritize"}
    /\ serving.i > Len(request.nodes)
    /\ \E encodeErr \in BOOLEAN :
          response' =
             IF encodeErr
             THEN [NoResponse EXCEPT !.status = StatusInternalServerError]
             ELSE [status |-> StatusOK, closed |-> FALSE, body |-> "result",
                   nodes |-> serving.filteredNodes,
                   failedNodes |-> serving.failedNodes,
                   priorityList |-> serving.priorityList]
    /\ serving' = [serving EXCEPT !.pc = "done"]
    /\ UNCHANGED <<varsStats, varsDecide, varsPreempt, varsCache, varsCycle,
                   varsGhost, request, query, varsWatch>>

\* The updater stores the stats it fetched for a node:
\* e.cache.Lock(); e.nodeStats[nodeName] = stats; e.cache.Unlock()
StoreEntry ==
    /\ \E n \in Nodes, r \in CacheResponses("extender") :
          /\ nodeStats[n] # [present |-> TRUE, value |-> FetchOf("extender", r)]
          /\ nodeStats' =
                [nodeStats EXCEPT
                    ![n] = [present |-> TRUE,
                            value |-> FetchOf("extender", r)]]
    /\ UNCHANGED <<varsStats, varsDecide, varsPreempt, mu, updater, handler,
                   stored, varsCycle, varsGhost, varsServe>>

NextServe ==
    \/ Receive
    \/ Health
    \/ Handle
    \/ FilterNode
    \/ PrioritizeNode
    \/ Encode
    \/ StoreEntry

SpecServe == InitServe /\ [][NextServe]_vars

\* C22: every request to /filter or /prioritize is answered with exactly
\* one status: 405 when the method is not POST, 400 when the body cannot be
\* read or is not valid JSON, 500 when the result cannot be encoded and 200
\* with the handler's result otherwise; GET /health is answered with 200.
C22_OneStatusPerRequest ==
    serving.pc = "done"
        => /\ ~response.closed
           /\ IF request.path = "/health" THEN response.status = StatusOK
              ELSE IF request.method # "POST"
              THEN response.status = StatusMethodNotAllowed
              ELSE IF request.body \in {"unreadable", "notjson"}
              THEN response.status = StatusBadRequest
              ELSE \/ response.status = StatusInternalServerError
                   \/ response.status = StatusOK /\ response.body = "result"

\* The place of a name in a list of distinct names.
IndexOf(list, name) == CHOOSE i \in DOMAIN list : list[i] = name

\* The server has answered a Filter request with the handler's result.
FilterServed ==
    /\ serving.pc = "done"
    /\ request.path = "/filter"
    /\ response.status = StatusOK

\* C30: in the answer to a Filter request, each candidate node is in
\* exactly one of the node list and the failed-nodes map, the node list
\* keeps the candidates in their input order, and a node is in the list
\* only if the cache held an entry for it that passes CanScheduleMulti for
\* the pod's demand.
C30_FilterPartitionsCandidates ==
    FilterServed
        => LET list == response.nodes
               failed == DOMAIN response.failedNodes
               listed == {list[i] : i \in DOMAIN list}
               cand == request.nodes
           IN  /\ \A i \in DOMAIN cand :
                     (cand[i] \in listed) # (cand[i] \in failed)
               /\ listed \cup failed \subseteq {cand[i] : i \in DOMAIN cand}
               /\ \A i, j \in DOMAIN list :
                     i < j => IndexOf(cand, list[i]) < IndexOf(cand, list[j])
               /\ \A n \in listed :
                     /\ serving.seen[n].present
                     /\ CanScheduleMulti(podReq, serving.seen[n].value, alpha)

\* C30 happens: of two candidates with cache entries one is returned and
\* the other one is turned down for insufficient resources.
C30_Witness ==
    /\ FilterServed
    /\ Len(request.nodes) = 2
    /\ Len(response.nodes) = 1
    /\ \E n \in DOMAIN response.failedNodes :
          response.failedNodes[n] = "insufficient resources"

(***************************************************************************)
(* The order of the fetches and the stores of the cache (SpecCache).       *)
(***************************************************************************)
\* The goroutine g has begun the store of what it holds.
Overwrote(g) ==
    IF g = "updater" THEN updater.pc = "w2" ELSE handler[g].pc = "w2"

\* C27: whatever the interleaving of the periodic refresh and of the
\* fetch-and-store of Filter and Score on a cache miss, no goroutine
\* overwrites a node's cache entry with stats fetched earlier than the stats
\* the entry holds.
C27_NoOlderOverwrite == \A g \in Goroutines : Overwrote(g) => g \notin stale

\* The goroutine g holds the mutex for writing while it has a metrics query
\* in flight.
QueriesUnderWriteLock(g) ==
    /\ mu.writer = g
    /\ IF g = "updater" THEN updater.pc = "fetch" ELSE handler[g].pc = "miss"

\* C28: no goroutine holds the write lock of the cache while one of its
\* metrics queries is in flight, so a read of the cache never waits for a
\* query.
C28_NoQueryUnderWriteLock == \A g \in Goroutines : ~QueriesUnderWriteLock(g)

(***************************************************************************)
(* SpecQuery: the metrics queries of one node-stats fetch, issued one      *)
(* after the other against a metrics source that answers a query, with a   *)
(* sample or an error, or never does.  Time is counted in seconds while a  *)
(* query is in flight.                                                     *)
(***************************************************************************)
\* context.WithTimeout(.., 10*time.Second); Timeout: 10 * time.Second
QueryTimeout == 10

\* The seconds the model follows a query that nothing ends.
MaxWait == 12

\* Whether the client of the front end bounds the wait for an answer: the
\* plugin by the context of Query, the preemptive scheduler by the Timeout
\* of its http.Client; the extender calls http.Get, which sets no limit.
hasTimeout(i) == i \in {"plugin", "preemptive"}

\* The queries of a fetch, in the order of the calls.
QueryNames(i) ==
    CASE i = "plugin" ->
             <<"cpuCount", "cpuUsageRatio", "memTotal", "memAvailable",
               "diskRead", "diskWrite", "netUp", "netDown">>
      [] i = "extender" ->
             <<"cpuUsage", "memTotal", "memFree", "diskRead", "diskWrite",
               "netUp", "netDown">>
      [] i = "preemptive" ->
             <<"cpuUsage", "memUsed", "memTotal", "diskReadUsage",
               "diskReadTotal", "diskWriteUsage", "diskWriteTotal",
               "netUpUsage", "netDownUsage", "netSpeed">>

\* What the metrics source answers to a query when it answers with a
\* sample.
SampleOf(i, name) ==
    CASE i = "preemptive" ->
             Own(IF name = "cpuUsage" THEN 2000
                 ELSE IF name = "memUsed" THEN 20
                 ELSE IF name = "memTotal" THEN 60 ELSE 40)
      [] i = "extender" ->
             Own(IF name = "cpuUsage" THEN 3000
                 ELSE IF name = "memTotal" THEN 160
                 ELSE IF name = "memFree" THEN 80 ELSE 40)
      [] i = "plugin" ->
             Own(IF name = "cpuCount" THEN 4000
                 ELSE IF name = "cpuUsageRatio" THEN 500
                 ELSE IF name = "memTotal" THEN 80 ELSE 40)

\* The callers of a fetch: the refresh sweep of the updater and the request
\* path (Filter and Score of the plugin, findNodeForPod).
Callers(i) ==
    CASE i = "plugin" -> {"sweep", "request"}
      [] i = "extender" -> {"sweep"}
      [] i = "preemptive" -> {"request"}

InitQuery ==
    /\ impl \in Impls
    /\ resp = <<>>
    /\ stats = ZeroStats
    /\ fetched = FALSE
    /\ alpha = 0
    /\ IdleDecide
    /\ IdlePreempt
    /\ IdleCache
    /\ IdleGhost
    /\ IdleServe
    /\ IdleCycle

\* getNodeStats is called and issues its first query.
StartFetch ==
    /\ query.phase = "idle"
    /\ \E c \in Callers(impl) :
          query' = [caller |-> c, phase |-> "inflight", n |-> 1, waited |-> 0]
    /\ resp' = <<>>
    /\ stats' = ZeroStats
    /\ fetched' = FALSE
    /\ UNCHANGED <<impl, varsDecide, varsPreempt, varsCache, varsCycle,
                   varsGhost, request, serving, response, varsWatch>>

\* A second passes while the query is in flight.
Tick ==
    /\ query.phase = "inflight"
    /\ query.waited < (IF hasTimeout(impl) THEN QueryTimeout ELSE MaxWait)
    /\ query' = [query EXCEPT !.waited = @ + 1]
    /\ UNCHANGED <<varsStats, varsDecide, varsPreempt, varsCache, varsCycle,
                   varsGhost, request, serving, response, varsWatch>>

\* The query of the fetch has returned `answer`: the fetch issues its next
\* query, or returns the stats when it was the last one.
returned(q, answers) ==
    IF q.n = Len(QueryNames(impl))
    THEN /\ query' = [q EXCEPT !.phase = "done"]
         /\ stats' = FetchOf(impl, answers)
         /\ fetched' = TRUE
    ELSE /\ query' = [q EXCEPT !.n = @ + 1, !.waited = 0]
         /\ UNCHANGED <<stats, fetched>>

\* The metrics source answers the query, with a sample or with an error.
Respond ==
    /\ query.phase = "inflight"
    /\ hasTimeout(impl) => query.waited < QueryTimeout
    /\ LET name == QueryNames(impl)[query.n]
       IN  \E answer \in {Err, SampleOf(impl, name)} :
              /\ resp' = [k \in DOMAIN resp \cup {name} |->
                             IF k = name THEN answer ELSE resp[k]]
              /\ returned(query, resp')
    /\ UNCHANGED <<impl, varsDecide, varsPreempt, varsCache, varsCycle,
                   varsGhost, request, serving, response, varsWatch>>

\* The deadline of the client passes: the query returns an error.
TimeOut ==
    /\ query.phase = "inflight"
    /\ hasTimeout(impl)
    /\ query.waited = QueryTimeout
    /\ LET name == QueryNames(impl)[query.n]
       IN  /\ resp' = [k \in DOMAIN resp \cup {name} |->
                          IF k = name THEN Err ELSE resp[k]]
           /\ returned(query, resp')
    /\ UNCHANGED <<impl, varsDecide, varsPreempt, varsCache, varsCycle,
                   varsGhost, request, serving, response, varsWatch>>

\* The caller takes the stats; the next fetch can start.
FetchReturned ==
    /\ query.phase = "done"
    /\ query' = NoQuery
    /\ UNCHANGED <<varsStats, varsDecide, varsPreempt, varsCache, varsCycle,
                   varsGhost, request, serving, response, varsWatch>>

NextQuery ==
    \/ StartFetch
    \/ Tick
    \/ Respond
    \/ TimeOut
    \/ FetchReturned

SpecQuery == InitQuery /\ [][NextQuery]_vars

\* C23: no metrics query is in flight for longer than the timeout of 10
\* seconds, even when the metrics source never answers it: it returns a
\* result or an error by then, so that the fetch it belongs to completes.
C23_QueryReturnsInTime ==
    query.phase = "inflight" => query.waited <= QueryTimeout

(***************************************************************************)
(* A failing eviction call in attemptPreemptionMulti (SpecPreempt).        *)
(***************************************************************************)
\* C25: when an eviction call of attemptPreemptionMulti fails, the function
\* returns false, the failing call is the last eviction call it makes, and
\* the pods evicted before it stay evicted.
C25_FailedEvictionAborts ==
    refused # 0
        => /\ result = "false"
           /\ requested # <<>>
           /\ requested[Len(requested)] = refused
           /\ \A i \in 1..(Len(requested) - 1) :
                 /\ requested[i] # refused
                 /\ cluster[requested[i]].phase = "Evicted"
           /\ cluster[refused].phase = "Running"

\* C25 happens: the second eviction call of an attempt has failed after the
\* first one evicted its pod.
C25_Witness ==
    /\ refused # 0
    /\ Len(requested) = 2
    /\ cluster[requested[1]].phase = "Evicted"

(***************************************************************************)
(* SpecWatch: the two loops of the preemptive scheduler (part_009): the    *)
(* goroutine of watchForUnscheduledPods, step by step, and the loop of     *)
(* main, one whole turn at a time.  The cluster has the one node n1, which *)
(* is ready; a pod record has the field `deleting` for its                 *)
(* DeletionTimestamp, and the node "" while no node is assigned to it.     *)
(***************************************************************************)
\* The pods that run on the node and the pods that wait for a node.
WatchRunning ==
    [phase : {"Running"}, node : {Node}, Priority : {0, 1},
     CPURequest : {1000}, MemRequest : {10}, deleting : {FALSE}]

WatchPending ==
    [phase : {"Pending"}, node : {""}, Priority : {2},
     CPURequest : {2000, 3000}, MemRequest : {0}, deleting : BOOLEAN]

\* The clusters: two pods that run, the one of the lower priority first,
\* and two that wait, the second of which asks for more and is not being
\* deleted.
WatchClusters ==
    {c \in WatchRunning \X WatchRunning \X WatchPending \X WatchPending :
        /\ c[1].Priority < c[2].Priority
        /\ c[3].CPURequest = 2000
        /\ c[4].CPURequest = 3000 /\ ~c[4].deleting}

\* The address of the node, which main takes for its name when the flag
\* -node is empty.
NodeIP == "10.0.0.1"

\* The flags of main: -node, and the PodRequest of -cpu (1.0), -mem (1 GiB)
\* and -priority; either the defaults, or -node n1 -priority 1.
Flags ==
    {f \in [node : {"", Node},
            podReq : [CPU : {1000}, Mem : {10}, DiskRead : {0},
                      DiskWrite : {0}, NetUp : {0}, NetDown : {0},
                      Priority : {0, 1}]] :
        (f.node = "") <=> (f.podReq.Priority = 0)}

\* extractPodRequirements of the preemptive scheduler: the CPU and memory
\* requests of the containers and the priority; the other demands are 0.
extractPodRequirements(p) ==
    [CPU |-> p.CPURequest, Mem |-> p.MemRequest, DiskRead |-> 0,
     DiskWrite |-> 0, NetUp |-> 0, NetDown |-> 0, Priority |-> p.Priority]

\* The pods the list call with the field selector spec.nodeName= returns,
\* in the order of their names.
RECURSIVE unscheduledFrom(_, _)
unscheduledFrom(cl, n) ==
    IF n > Len(cl) THEN <<>>
    ELSE (IF cl[n].node = "" THEN <<n>> ELSE <<>>)
            \o unscheduledFrom(cl, n + 1)

unscheduled(cl) == unscheduledFrom(cl, 1)

\* A loop that gives up at the first error.
onErrorStops(at) == "stopped"

\* Where the watch loop goes on after an error: after a failed list call it
\* sleeps and polls again, after a failed findNodeForPod or bind call it
\* continues with the next pod.
onError(at) == IF at = "list" THEN "sleep" ELSE "next"

\* A findNodeForPod that returns the node as soon as the preemption has
\* succeeded.
afterPreemptionReturns(ok) == IF ok THEN "bind" ELSE "next"

\* Where findNodeForPod goes on after attemptPreemptionMulti: to the fetch
\* and the check of the node anew when it returned true, to the next node
\* (there is none: return "", nil) otherwise.
afterPreemption(ok) == IF ok THEN "recheck" ELSE "next"

\* The eviction calls an attempt made, as records of the calls.
evictionCalls(names, by, for) ==
    {[victim |-> names[i], by |-> by, for |-> for] : i \in DOMAIN names}

InitWatch ==
    /\ impl = "preemptive"
    /\ alpha = 80
    /\ resp = <<>>
    /\ stats = ZeroStats
    /\ fetched = FALSE
    /\ IdleDecide
    /\ cluster \in WatchClusters
    /\ pc = "off"
    /\ NoAttempt
    /\ IdleCache
    /\ IdleGhost
    /\ IdleCycle
    /\ request = NoRequest
    /\ serving = NotServing
    /\ response = NoResponse
    /\ query = NoQuery
    /\ watch = [NoWatch EXCEPT !.pc = "poll"]
    /\ evictions = {}
    /\ flags \in Flags

\* pods, err := client.CoreV1().Pods("").List(..), with the answer of the
\* call as its input.
WatchList ==
    /\ watch.pc = "poll"
    /\ \E listErr \in BOOLEAN :
          watch' =
             IF listErr THEN [watch EXCEPT !.pc = onError("list")]
             ELSE [watch EXCEPT
                      !.items = unscheduled(cluster),
                      !.pc = IF unscheduled(cluster) = <<>> THEN "sleep"
                             ELSE "pod"]
    /\ UNCHANGED <<varsStats, varsDecide, varsPreempt, varsCache, varsCycle,
                   varsGhost, request, serving, response, query, evictions,
                   flags>>

\* The loop over pods.Items takes the next pod: it skips a pod that is
\* being deleted and extracts the requirements of any other.
WatchTake ==
    /\ watch.pc = "pod"
    /\ LET p == Head(watch.items)
       IN  IF cluster[p].deleting
           THEN /\ watch' = [watch EXCEPT
                                !.items = Tail(@),
                                !.pc = IF Tail(watch.items) = <<>>
                                       THEN "sleep" ELSE "pod"]
                /\ UNCHANGED podReq
           ELSE /\ watch' = [watch EXCEPT !.pc = "find", !.pod = p,
                                          !.evictedOn = FALSE,
                                          !.fresh = FALSE,
                                          !.lastCheck = "none"]
                /\ podReq' = extractPodRequirements(cluster[p])
    /\ UNCHANGED <<varsStats, alpha, op, admitted, score, varsPreempt,
                   varsCache, varsCycle, varsGhost, request, serving,
                   response, query, evictions, flags>>

\* findNodeForPod up to its first check of the node: the list of the
\* nodes, whose failure is an input, getNodeStats and canScheduleMulti.
WatchFind ==
    /\ watch.pc = "find"
    /\ \E listErr \in BOOLEAN, r \in BindResponses :
          IF listErr
          THEN /\ watch' = [watch EXCEPT !.pc = onError("find")]
               /\ UNCHANGED <<resp, stats, fetched, admitted>>
          ELSE /\ resp' = r
               /\ stats' = getNodeStats(r)
               /\ fetched' = TRUE
               /\ admitted' = canScheduleMulti(podReq, getNodeStats(r), alpha)
               /\ watch' =
                     [watch EXCEPT
                         !.lastCheck = IF admitted' THEN "pass" ELSE "fail",
                         !.pc = IF admitted' THEN "bind"
                                ELSE IF enablePreemption THEN "preempt"
                                ELSE "next"]
    /\ UNCHANGED <<impl, alpha, podReq, op, score, varsPreempt, varsCache,
                   varsCycle, varsGhost, request, serving, response, query,
                   evictions, flags>>

\* if attemptPreemptionMulti(client, podReq, nodeName, stats) { .. }, with
\* the answer of the list call, the order the sort leaves and the eviction
\* call that fails as its inputs.
WatchPreempt ==
    /\ watch.pc = "preempt"
    /\ \E listErr \in BOOLEAN :
          LET list == [err |-> listErr,
                       pods |-> IF listErr THEN {}
                                ELSE getRunningPods(cluster, Node)]
          IN  \E s \in SortOutcomes(Candidates(list.pods, podReq)) :
              \E f \in {0} \cup {s[i].Name : i \in 1..victimCount(stats, podReq, s)} :
                  LET out == attemptPreemptionMulti(list, podReq, stats, s, f)
                  IN  /\ listFailed' = listErr
                      /\ sorted' = s
                      /\ requested' = out.requested
                      /\ refused' = f
                      /\ result' = IF out.result THEN "true" ELSE "false"
                      /\ cluster' = afterEvictions(cluster, out.requested, f)
                      /\ evictions' =
                            evictions
                               \cup evictionCalls(out.requested, "watch",
                                                  watch.pod)
                      /\ watch' =
                            [watch EXCEPT
                                !.pc = afterPreemption(out.result),
                                !.evictedOn = @ \/ out.requested # <<>>,
                                !.fresh = @ /\ out.requested = <<>>]
    /\ UNCHANGED <<varsStats, varsDecide, pc, varsCache, varsCycle,
                   varsGhost, request, serving, response, query, flags>>

\* stats, err = getNodeStats(nodeName);
\* if canScheduleMulti(podReq, stats, alpha) { return nodeName, nil }
WatchRecheck ==
    /\ watch.pc = "recheck"
    /\ \E r \in BindResponses :
          /\ resp' = r
          /\ stats' = getNodeStats(r)
          /\ admitted' = canScheduleMulti(podReq, getNodeStats(r), alpha)
          /\ watch' = [watch EXCEPT
                          !.fresh = TRUE,
                          !.lastCheck = IF admitted' THEN "pass" ELSE "fail",
                          !.pc = IF admitted' THEN "bind" ELSE "next"]
    /\ UNCHANGED <<impl, fetched, alpha, podReq, op, score, varsPreempt,
                   varsCache, varsCycle, varsGhost, request, serving,
                   response, query, evictions, flags>>

\* err = bindPodToNode(client, &pod, nodeName), with the answer of the
\* bind call as its input.
WatchBind ==
    /\ watch.pc = "bind"
    /\ \E bindErr \in BOOLEAN :
          IF bindErr
          THEN /\ watch' = [watch EXCEPT !.pc = onError("bind")]
               /\ UNCHANGED cluster
          ELSE /\ watch' = [watch EXCEPT !.pc = "next"]
               /\ cluster' = [cluster EXCEPT ![watch.pod].node = Node]
    /\ UNCHANGED <<varsStats, varsDecide, pc, listFailed, sorted, requested,
                   refused, result, varsCache, varsCycle, varsGhost, request,
                   serving, response, query, evictions, flags>>

\* The loop over pods.Items goes on, its locals gone; after the last pod
\* the goroutine sleeps.
WatchNext ==
    /\ watch.pc = "next"
    /\ watch' =
          [NoWatch EXCEPT
              !.items = Tail(watch.items),
              !.pc = IF Tail(watch.items) = <<>> THEN "sleep" ELSE "pod",
              !.failed = IF cluster[watch.pod].node = ""
                         THEN watch.failed \cup {watch.pod}
                         ELSE watch.failed \ {watch.pod}]
    /\ resp' = <<>>
    /\ stats' = ZeroStats
    /\ fetched' = FALSE
    /\ podReq' = ZeroRequest
    /\ admitted' = FALSE
    /\ listFailed' = FALSE
    /\ sorted' = <<>>
    /\ requested' = <<>>
    /\ refused' = 0
    /\ result' = "none"
    /\ UNCHANGED <<impl, alpha, op, score, cluster, pc, varsCache, varsCycle,
                   varsGhost, request, serving, response, query, evictions,
                   flags>>

\* time.Sleep returns.
WatchWake ==
    /\ watch.pc = "sleep"
    /\ watch' = [watch EXCEPT !.pc = "poll", !.items = <<>>]
    /\ UNCHANGED <<varsStats, varsDecide, varsPreempt, varsCache, varsCycle,
                   varsGhost, request, serving, response, query, evictions,
                   flags>>

\* The node main checks: the flag -node, or, when it is empty, the address
\* of the first node of the list.
targetNode(flagNode) == IF flagNode = "" THEN NodeIP ELSE flagNode

\* One turn of the loop of main: the stats of the target node, the check of
\* the request built from the flags and, when it fails and -preemption is
\* on, attemptPreemptionMulti for that request.
MainCheck ==
    /\ watch.pc # "off"
    /\ \E nodesErr \in BOOLEAN, r \in BindResponses, listErr \in BOOLEAN :
          LET st == getNodeStats(r)
              list == [err |-> listErr,
                       pods |-> IF listErr THEN {}
                                ELSE getRunningPods(cluster,
                                                    targetNode(flags.node))]
          IN  /\ ~(flags.node = "" /\ nodesErr)
              /\ ~canScheduleMulti(flags.podReq, st, alpha)
              /\ enablePreemption
              /\ \E s \in SortOutcomes(Candidates(list.pods, flags.podReq)) :
                 \E f \in {0} \cup {s[i].Name :
                                      i \in 1..victimCount(st, flags.podReq, s)} :
                    LET out == attemptPreemptionMulti(list, flags.podReq,
                                                      st, s, f)
                    IN  /\ out.requested # <<>>
                        /\ cluster' = afterEvictions(cluster, out.requested, f)
                        /\ evictions' =
                              evictions
                                 \cup evictionCalls(out.requested, "main", 0)
    /\ UNCHANGED <<varsStats, varsDecide, pc, listFailed, sorted, requested,
                   refused, result, varsCache, varsCycle, varsGhost, request,
                   serving, response, query, watch, flags>>

\* The steps of the watch goroutine.
WatchStep ==
    \/ WatchList
    \/ WatchTake
    \/ WatchFind
    \/ WatchPreempt
    \/ WatchRecheck
    \/ WatchBind
    \/ WatchNext
    \/ WatchWake

NextWatch ==
    \/ WatchStep
    \/ MainCheck

SpecWatch == InitWatch /\ [][NextWatch]_vars

\* The goroutine is scheduled again and again, and each of its calls
\* returns: the API calls with an answer or an error, the metrics queries
\* within their timeout, the sleeps after their time.
SpecWatchFair == SpecWatch /\ WF_vars(WatchStep)

\* The names of the pods of the cluster.
WatchPodNames == 1..4

\* The pod p has no node and is not being deleted.
Waiting(p) ==
    /\ cluster[p].phase = "Pending"
    /\ cluster[p].node = ""
    /\ ~cluster[p].deleting

\* The watch loop is at the call of findNodeForPod for the pod p.
Attempting(p) == watch.pc = "find" /\ watch.pod = p

\* The attempt of the watch loop for the pod p is over, whatever its end.
Attempted(p) == watch.pc = "next" /\ watch.pod = p

\* C24: the watch-and-bind loop never ends and is never stuck: it comes
\* back to its poll again and again, after an error of a list, fetch, evict
\* or bind call as well, and, as long as polls return the pod list, a pod
\* that is still without a node and is not being deleted after an attempt
\* is attempted again.
C24_LoopGoesOnAndRetries ==
    /\ []<>(watch.pc = "poll")
    /\ []<>(watch.pc = "pod")
          => \A p \in WatchPodNames :
                (Attempted(p) /\ Waiting(p)) ~> (Attempting(p) \/ ~Waiting(p))

\* C24 happens: a pod whose earlier attempt ended without a binding is
\* attempted again in a later poll.
C24_Witness ==
    \E p \in WatchPodNames : Attempting(p) /\ p \in watch.failed /\ Waiting(p)

\* findNodeForPod has returned the node and the pod has not left the loop
\* body: the bind call is about to be made, or has bound the pod.
Returned ==
    \/ watch.pc = "bind"
    \/ watch.pc = "next" /\ cluster[watch.pod].node = Node

\* C26: findNodeForPod returns a node, and the loop binds the pod to it,
\* only when the last admission check of the node succeeded, and, if the
\* call evicted pods on the node, only when that check was made on stats
\* fetched after the last of its evictions.
C26_BindsOnlyAfterFreshCheck ==
    Returned
        => /\ watch.lastCheck = "pass"
           /\ canScheduleMulti(podReq, stats, alpha)
           /\ watch.evictedOn => watch.fresh

\* C26 happens: the pod is bound to the node after an eviction on it, a
\* fetch of its stats and a check that succeeded.
C26_Witness ==
    /\ watch.pc = "next"
    /\ cluster[watch.pod].node = Node
    /\ watch.evictedOn
    /\ watch.fresh
    /\ \E e \in evictions : e.by = "watch" /\ e.for = watch.pod

\* C29: every eviction call of the preemptive scheduler is made by the
\* watch loop for a pending pod it took from the pod list; the loop of main,
\* which checks the request built from the flags, makes none.
C29_EvictionsOnlyForPendingPods ==
    \A e \in evictions :
        /\ e.by = "watch"
        /\ e.for \in WatchPodNames
        /\ cluster[e.for].phase = "Pending"
====
